---- MODULE Spec2Model ----
(***************************************************************************)
(* The connection admission pipeline and the Room lifecycle of yjs-server  *)
(* (createYjsServer, Room), as a state machine.                            *)
(*                                                                         *)
(* JavaScript runs every callback to completion.  An event (a call of the  *)
(* server's API, a frame, a 'close' notification, a promise settled by a   *)
(* collaborator, a timer) is one action; the continuation of an `await`    *)
(* is a microtask, kept in the queue mq, and no event is taken while mq is *)
(* not empty.                                                              *)
(***************************************************************************)
EXTENDS Integers, Sequences, FiniteSets, TLC

\* ------------------------------------------------------------- bounds
\* frames the clients send in one behaviour, over all connections
MaxFrames == 2
\* the option maxBufferedBytesBeforeConnect, scaled to the frame sizes 1 and 2
maxBufferedBytesBeforeConnect == 2
\* the option maxBufferedBytes, scaled likewise
maxBufferedBytes == 3
\* watchdog ticks and pongs of one connection in one behaviour
MaxKeepAliveEvents == 3

\* the connections handed to the server, each at most once
Conns == {"c1", "c2"}
\* the document names a request can carry; NoName is the empty name
Names == {"d1"}
NoName == ""
\* the connections are named in the order in which the server is given them
Before(c, d) == c = "c1" /\ d = "c2"

\* ---------------------------------------------------------- constants
OPEN == 1
CLOSING == 2
CLOSED == 3
Sync == 0
Awareness == 1
NORMAL == 1000
UNSUPPORTED == 1003
INTERNAL_ERROR == 1011

\* the defaults of createYjsServer's options, in the units of the code (ms, bytes)
pingTimeoutMs == 30000
defaults ==
  [ pingTimeoutMs |-> pingTimeoutMs,
    maxBufferedBytesBeforeConnect |-> 1024 * 5,
    maxBufferedBytes |-> 1024 * 1024 * 100 ]

\* the options createYjsServer works with when it is given the options `given`
\* (a record with some of the fields)
CreateYjsServerOptions(given) ==
  [k \in DOMAIN defaults |-> IF k \in DOMAIN given THEN given[k] ELSE defaults[k]]

VARIABLES
  isClosed,    \* createYjsServer: let isClosed
  docStorage,  \* the option docStorage: "none", or "store" (loadDoc, onUpdate and storeDoc)
  config,      \* the options pingTimeoutMs, maxBufferedBytesBeforeConnect, maxBufferedBytes
  rooms,       \* the Registry: name -> index of its Room in room, 0 when absent
  room,        \* every Room made so far, in creation order
  conn,        \* per connection: the socket, its listeners and its handleConnection call
  mq,          \* the microtask queue: continuations of settled awaits
  timer,       \* close(): the terminateTimeout timer and the rooms it captured
  sentN        \* frames sent by the clients so far

vars == <<isClosed, docStorage, config, rooms, room, conn, mq, timer, sentN>>

\* ------------------------------------------------------------- frames
\* A frame as the server sees it: binary or not, its message kind (the first
\* varUint) and its byteLength.  A sync frame carries its sender's update of
\* the document (the same update when the sender sends it again); a string
\* frame has no message kind.
Frames ==
  { [bin |-> TRUE,  kind |-> Sync,      len |-> 1],
    [bin |-> TRUE,  kind |-> Awareness, len |-> 2],
    [bin |-> TRUE,  kind |-> 2,         len |-> 1],
    [bin |-> FALSE, kind |-> -1,        len |-> 1] }

\* the presence ids an awareness frame of connection c sets a state for (the
\* same states when c sends it again)
clientIds(c) == {c \o ".1", c \o ".2"}

\* An awareness frame that sets the state of a presence id any connection may
\* set: the id of a client that has reconnected, say.  The state a connection
\* sends for it is newer than the one another connection sent.
SharedIds == {"0"}
PresenceFrames == { [bin |-> TRUE, kind |-> Awareness, len |-> 1] }

\* the presence ids the awareness frame f of connection c sets a state for
statesOf(c, f) == IF f \in PresenceFrames THEN SharedIds ELSE clientIds(c)

Ids == SharedIds \cup UNION {clientIds(c) : c \in Conns}

RECURSIVE byteLength(_)
byteLength(messages) ==
  IF messages = <<>> THEN 0 ELSE Head(messages).len + byteLength(Tail(messages))

\* ------------------------------------------------------- the state, as a value
\* The handlers below are functions from a state s to a state; an action
\* applies one handler to Cur and stores the result.
Cur == [conn |-> conn, room |-> room, rooms |-> rooms, mq |-> mq]

Store(s) ==
  /\ conn' = s.conn
  /\ room' = s.room
  /\ rooms' = s.rooms
  /\ mq' = s.mq

NewConn ==
  [ readyState |-> OPEN,
    pc |-> "new",            \* new, auth, load, attached, done
    outcome |-> "",          \* why handleConnection returned without attaching
    shouldConnect |-> "none",\* the authorization promise: none, pending, true, false, rejected
    onMessage |-> "none",    \* the 'message' listener: none, buffer, relay
    onClose |-> {},          \* the 'close' listeners: buffer, room, keepAlive
    isAlive |-> TRUE,        \* keepAlive: let isAlive
    pingInterval |-> "none", \* keepAlive: the interval timer: none, set, cleared
    wd |-> <<>>,             \* history: the ticks of the interval and the pongs received
    bufferedMessages |-> <<>>,
    size |-> 0,
    room |-> 0,              \* the Room returned by getOrCreateRoom
    arrived |-> <<>>,        \* history: frames that arrived while handleConnection awaited
    relayed |-> <<>>,        \* history: frames the replay handed to handleMessage
    sent |-> {},             \* history: what the server sent on the socket
    first |-> "",            \* history: the first frame the server sent on the socket
    sendFails |-> FALSE,     \* conn.send(m, cb) throws or reports an error
    sends |-> 0,             \* history: how many frames the server sent on the socket
    calls |-> <<>>,          \* history: close(code) and terminate() calls the server made
    log |-> <<>> ]           \* history: logger calls about this connection

Init ==
  /\ isClosed = FALSE
  /\ docStorage \in {"none", "store"}
  /\ config = CreateYjsServerOptions(
                [maxBufferedBytesBeforeConnect |-> maxBufferedBytesBeforeConnect,
                 maxBufferedBytes |-> maxBufferedBytes])
  /\ rooms = [n \in Names |-> 0]
  /\ room = <<>>
  /\ conn = [c \in Conns |-> NewConn]
  /\ mq = <<>>
  /\ timer = [state |-> "none", rooms |-> {}]
  /\ sentN = 0

\* ------------------------------------------------------------ the socket
\* IWebSocket.close(code): the call is recorded; an open socket starts closing.
close_(s, c, code) ==
  [s EXCEPT !.conn[c].calls = Append(@, [op |-> "close", code |-> code]),
            !.conn[c].readyState = IF @ = OPEN THEN CLOSING ELSE @]

\* IWebSocket.terminate()
terminate(s, c) ==
  [s EXCEPT !.conn[c].calls = Append(@, [op |-> "terminate", code |-> 0]),
            !.conn[c].readyState = IF @ = OPEN THEN CLOSING ELSE @]

logger(s, c, level, msg, size, maxSize) ==
  [s EXCEPT !.conn[c].log =
     Append(@, [level |-> level, msg |-> msg, size |-> size, maxSize |-> maxSize])]

\* send(conn, m): a socket that is not open, or whose send throws or reports
\* an error, is closed with INTERNAL_ERROR
send(s, c, m) ==
  IF s.conn[c].readyState = OPEN /\ ~s.conn[c].sendFails
  THEN [s EXCEPT !.conn[c].sent = @ \cup {m}, !.conn[c].sends = @ + 1,
                 !.conn[c].first = IF @ = "" THEN m ELSE @]
  ELSE close_(s, c, INTERNAL_ERROR)

queueMicrotask(s, k, c, v, by) ==
  [s EXCEPT !.mq = Append(@, [k |-> k, c |-> c, v |-> v, by |-> by])]

\* --------------------------------------------------------------- Room
\* new Room(name, yDoc, docStorage, logger), with the load started: the
\* constructor subscribes handleDocUpdate to the document's 'update' event.
Room(name, whenLoaded) ==
  [ name |-> name,
    yDoc |-> {},             \* the updates merged into the document: their senders, or "stored"
    isDirty |-> FALSE,
    conns |-> {},            \* the attached connections (the keys of the map conns)
    controlled |-> [c \in Conns |-> {}],  \* the map conns: the presence ids each controls
    awareness |-> {},        \* awareness.getStates(): the presence ids that have a state
    setBy |-> [id \in Ids |-> "null"],  \* history: the connection whose frame set the state
    subscribed |-> TRUE,     \* yDoc.on('update', handleDocUpdate) is in force
    loadPromise |-> whenLoaded,  \* pending, true, false
    waiting |-> <<>>,        \* the connections racing loadPromise, in the order they began
    loadDocCalls |-> IF docStorage = "none" THEN 0 ELSE 1,
    onUpdateCalls |-> <<>>,  \* history: the updates given to docStorage.onUpdate
    onUpdateSettled |-> 0,   \* how many of the promises onUpdate returned have settled
    storeDocCalls |-> <<>>,  \* history: the (name, document) pairs given to storeDoc
    storeDoc |-> "none",     \* the promise storeDoc returned: none, pending, settled
    yDocDestroyed |-> FALSE, \* yDoc.destroy() was called
    destroyed |-> 0,         \* history: how often destroy() ran
    everAttached |-> {},     \* history: the connections addConnection was called with
    waitedOut |-> {},        \* history: the connections that were waiting when the load settled
    log |-> <<>> ]

\* room.loadPromise of a Room just made: the load is in flight when a storage
\* collaborator is configured, and is already satisfied otherwise.
loadPromise == IF docStorage = "none" THEN "true" ELSE "pending"

makeRoom(name) == Room(name, loadPromise)

\* a forEach that an exception of send leaves at the first failing socket
broadcast_abortsOnFailure(s, r, m) ==
  IF \E c \in s.room[r].conns : s.conn[c].readyState # OPEN \/ s.conn[c].sendFails
  THEN LET c == CHOOSE d \in s.room[r].conns :
                  s.conn[d].readyState # OPEN \/ s.conn[d].sendFails
       IN  close_(s, c, INTERNAL_ERROR)
  ELSE [s EXCEPT !.conn = [c \in Conns |->
          IF c \in s.room[r].conns THEN send(s, c, m).conn[c] ELSE s.conn[c]]]

\* this.conns.forEach((_, conn) => send(conn, message))
broadcast(s, r, m) ==
  [s EXCEPT !.conn = [c \in Conns |->
     IF c \in s.room[r].conns THEN send(s, c, m).conn[c] ELSE s.conn[c]]]

\* a handleDocUpdate that does not send the update to the connections
handleDocUpdate_noBroadcast(s, r, update) ==
  [s EXCEPT !.room[r].onUpdateCalls = IF docStorage = "store" THEN Append(@, update) ELSE @,
            !.room[r].isDirty = TRUE]

\* Room.handleDocUpdate, the document's 'update' listener
handleDocUpdate(s, r, update) ==
  [broadcast(s, r, update) EXCEPT
     !.room[r].onUpdateCalls = IF docStorage = "store" THEN Append(@, update) ELSE @,
     !.room[r].isDirty = TRUE]

\* Y.applyUpdate / readSyncMessage on the Room's document: an update that
\* changes the document emits 'update' to the subscribed listener.
applyUpdate(s, r, u) ==
  IF u \in s.room[r].yDoc THEN s
  ELSE LET s1 == [s EXCEPT !.room[r].yDoc = @ \cup {u}]
       IN  IF s1.room[r].subscribed THEN handleDocUpdate(s1, r, u) ELSE s1

\* encodeAwarenessUpdate(awareness, clients): for each client its state, or
\* null ("-") when it has none
RECURSIVE encodeAwarenessUpdate(_, _)
encodeAwarenessUpdate(states, clients) ==
  IF clients = {} THEN "awareness"
  ELSE LET id == CHOOSE x \in clients : TRUE
       IN  encodeAwarenessUpdate(states, clients \ {id}) \o " " \o id
             \o (IF id \in states THEN "+" ELSE "-")

\* Room.handleAwarenessUpdate, the 'update' listener of the Room's awareness;
\* origin is the connection whose frame made the change, or "null"
handleAwarenessUpdate(s, r, added, updated, removed, origin) ==
  LET s1 == IF origin \in s.room[r].conns
            THEN [s EXCEPT !.room[r].controlled[origin] = (@ \cup added) \ removed]
            ELSE s
  IN  broadcast(s1, r, encodeAwarenessUpdate(s1.room[r].awareness,
                                             added \cup updated \cup removed))

\* applyAwarenessUpdate(awareness, update, origin): a state that is not newer
\* than the one held is ignored
applyAwarenessUpdate(s, r, states, origin) ==
  LET added == states \ s.room[r].awareness
      updated == {id \in states \cap s.room[r].awareness : s.room[r].setBy[id] # origin}
      s1 == [s EXCEPT !.room[r].awareness = @ \cup states,
                      !.room[r].setBy = [id \in Ids |->
                         IF id \in added \cup updated THEN origin ELSE @[id]]]
  IN  IF added \cup updated = {} THEN s
      ELSE handleAwarenessUpdate(s1, r, added, updated, {}, origin)

\* removeAwarenessStates(awareness, clients, origin)
removeAwarenessStates(s, r, clients, origin) ==
  LET removed == clients \cap s.room[r].awareness
      s1 == [s EXCEPT !.room[r].awareness = @ \ clients,
                      !.room[r].setBy = [id \in Ids |->
                         IF id \in removed THEN "null" ELSE @[id]]]
  IN  IF removed = {} THEN s
      ELSE handleAwarenessUpdate(s1, r, {}, {}, removed, origin)

addConnection(s, r, c) ==
  [s EXCEPT !.room[r].conns = @ \cup {c},
            !.room[r].controlled[c] = {},
            !.room[r].everAttached = @ \cup {c}]

\* a removeConnection that leaves the presence states of the connection
removeConnection_keepsAwareness(s, r, c) ==
  IF c \in s.room[r].conns
  THEN [s EXCEPT !.room[r].conns = @ \ {c}, !.room[r].controlled[c] = {}]
  ELSE s

removeConnection(s, r, c) ==
  IF c \in s.room[r].conns
  THEN LET s1 == removeAwarenessStates(s, r, s.room[r].controlled[c], "null")
       IN  [s1 EXCEPT !.room[r].conns = @ \ {c}, !.room[r].controlled[c] = {}]
  ELSE s

\* a destroy that does not persist
destroy_noStore(s, r) ==
  [s EXCEPT !.room[r].subscribed = FALSE, !.room[r].destroyed = @ + 1,
            !.room[r].yDocDestroyed = TRUE]

destroy(s, r) ==
  LET s1 == [s EXCEPT !.room[r].subscribed = FALSE, !.room[r].destroyed = @ + 1]
  IN  IF s1.room[r].isDirty /\ docStorage = "store"
      THEN [s1 EXCEPT !.room[r].storeDocCalls =
              Append(@, [name |-> s1.room[r].name, yDoc |-> s1.room[r].yDoc]),
                      !.room[r].storeDoc = "pending"]
      ELSE [s1 EXCEPT !.room[r].yDocDestroyed = TRUE]

\* ---------------------------------------------------- createYjsServer
\* a getOrCreateRoom that does not look the name up
getOrCreateRoom_noLookup(s, name, createDoc) ==
  IF createDoc = "throws" THEN s
  ELSE [s EXCEPT !.room = Append(@, makeRoom(name)),
                 !.rooms[name] = Len(s.room) + 1]

\* createDoc is what the caller's createDoc() does when it is called: "ok" or
\* "throws"; when it throws, nothing is registered
getOrCreateRoom(s, name, createDoc) ==
  IF s.rooms[name] # 0 THEN s
  ELSE IF createDoc = "throws" THEN s
  ELSE [s EXCEPT !.room = Append(@, makeRoom(name)),
                 !.rooms[name] = Len(s.room) + 1]

\* a handleClose that does not count the connections left
handleClose_noCount(s, c, r) ==
  LET s1 == removeConnection(s, r, c)
  IN  destroy([s1 EXCEPT !.rooms[s1.room[r].name] = 0], r)

handleClose(s, c, r) ==
  LET s1 == removeConnection(s, r, c)
  IN  IF s1.room[r].conns = {}
      THEN destroy([s1 EXCEPT !.rooms[s1.room[r].name] = 0], r)
      ELSE s1

\* an onMessage that pushes the frame before it checks the size
onMessage_pushFirst(s, c, f, maxSize) ==
  IF s.conn[c].readyState \in {CLOSING, CLOSED} THEN s
  ELSE IF f.bin
       THEN LET size == s.conn[c].size + f.len
                s1 == [s EXCEPT !.conn[c].size = size,
                                !.conn[c].bufferedMessages = Append(@, f)]
            IN  IF size <= maxSize
                THEN s1
                ELSE terminate(
                       logger(s1, c, "warn", "message buffer exceeded maxSize", size, maxSize), c)
       ELSE terminate(logger(s, c, "warn", "received a non-arraybuffer message", 0, 0), c)

\* bufferUntilReady.onMessage
onMessage(s, c, f, maxSize) ==
  IF s.conn[c].readyState \in {CLOSING, CLOSED} THEN s
  ELSE IF f.bin
       THEN LET size == s.conn[c].size + f.len
                s1 == [s EXCEPT !.conn[c].size = size]
            IN  IF size <= maxSize
                THEN [s1 EXCEPT !.conn[c].bufferedMessages = Append(@, f)]
                ELSE terminate(
                       logger(s1, c, "warn", "message buffer exceeded maxSize", size, maxSize), c)
       ELSE terminate(logger(s, c, "warn", "received a non-arraybuffer message", 0, 0), c)

\* a bufferUntilReady that adds its 'message' listener only after its await
bufferUntilReady_listensLate(s, c, whenReady) ==
  LET s1 == [s EXCEPT !.conn[c].size = byteLength(s.conn[c].bufferedMessages),
                      !.conn[c].onClose = @ \cup {"buffer"}]
  IN  IF whenReady = "pending" THEN s1
      ELSE queueMicrotask(s1, "race", c, whenReady, "gate")

\* a bufferUntilReady whose running size starts at zero in every phase
bufferUntilReady_sizeFromZero(s, c, whenReady) ==
  LET s1 == [s EXCEPT !.conn[c].size = 0,
                      !.conn[c].onMessage = "buffer",
                      !.conn[c].onClose = @ \cup {"buffer"}]
  IN  IF whenReady = "pending" THEN s1
      ELSE queueMicrotask(s1, "race", c, whenReady, "gate")

\* bufferUntilReady up to its await: the running size, the two listeners, and
\* Promise.race, which settles at once (in a microtask) when whenReady is settled.
bufferUntilReady(s, c, whenReady) ==
  LET s1 == [s EXCEPT !.conn[c].size = byteLength(s.conn[c].bufferedMessages),
                      !.conn[c].onMessage = "buffer",
                      !.conn[c].onClose = @ \cup {"buffer"}]
  IN  IF whenReady = "pending" THEN s1
      ELSE queueMicrotask(s1, "race", c, whenReady, "gate")

\* an onClose that resolves the race and leaves the backlog as it is
onClose_keepsBacklog(s, c) == queueMicrotask(s, "race", c, "false", "closed")

\* bufferUntilReady.onClose, the 'close' listener of the race
onClose(s, c) ==
  queueMicrotask([s EXCEPT !.conn[c].bufferedMessages = <<>>], "race", c, "false", "closed")

\* a bufferUntilReady whose finally removes its listeners only when the gate
\* let the connection through
bufferUntilReadyFinally_keepsListeners(s, c, v, by) ==
  LET r == s.conn[c].room
      s1 == IF v = "true"
            THEN [s EXCEPT !.conn[c].onMessage = "none",
                           !.conn[c].onClose = @ \ {"buffer"}]
            ELSE s
      s2 == IF s.conn[c].pc = "load"
            THEN [s1 EXCEPT !.room[r].waiting = SelectSeq(@, LAMBDA x : x # c)]
            ELSE s1
  IN  queueMicrotask(s2, "resume", c, v, by)

\* bufferUntilReady's finally, then its result goes back to handleConnection
bufferUntilReadyFinally(s, c, v, by) ==
  LET r == s.conn[c].room
      s1 == [s EXCEPT !.conn[c].onMessage = "none",
                      !.conn[c].onClose = @ \ {"buffer"}]
      s2 == IF s.conn[c].pc = "load"
            THEN [s1 EXCEPT !.room[r].waiting = SelectSeq(@, LAMBDA x : x # c)]
            ELSE s1
  IN  queueMicrotask(s2, "resume", c, v, by)

handleMessageImpl(s, c, r, f) ==
  CASE f.kind = Sync -> applyUpdate(s, r, c)
    [] f.kind = Awareness -> applyAwarenessUpdate(s, r, statesOf(c, f), c)
    [] OTHER -> s             \* throws: see handleMessage

\* a handleMessage that does not look at the socket's readyState
handleMessage_noReadyStateCheck(s, c, r, f) ==
  LET s0 == IF s.conn[c].pc = "attached" THEN s
            ELSE [s EXCEPT !.conn[c].relayed = Append(@, f)]
  IN  IF f.bin
      THEN IF f.kind \in {Sync, Awareness}
           THEN handleMessageImpl(s0, c, r, f)
           ELSE close_(logger(s0, c, "error", "error handling message", 0, 0),
                       c, UNSUPPORTED)
      ELSE close_(logger(s0, c, "error", "received a non-arraybuffer message", 0, 0),
                  c, UNSUPPORTED)

\* setupNewConnection.handleMessage
handleMessage(s, c, r, f) ==
  LET s0 == IF s.conn[c].pc = "attached" THEN s
            ELSE [s EXCEPT !.conn[c].relayed = Append(@, f)]
  IN  IF s0.conn[c].readyState \in {CLOSING, CLOSED} THEN s0
      ELSE IF f.bin
           THEN IF f.kind \in {Sync, Awareness}
                THEN handleMessageImpl(s0, c, r, f)
                ELSE close_(logger(s0, c, "error", "error handling message", 0, 0),
                            c, UNSUPPORTED)
           ELSE close_(logger(s0, c, "error", "received a non-arraybuffer message", 0, 0),
                       c, UNSUPPORTED)

\* a replay that takes the backlog from its end
RECURSIVE forEach_lastFirst(_, _, _, _)
forEach_lastFirst(s, c, r, messages) ==
  IF messages = <<>> THEN s
  ELSE forEach_lastFirst(handleMessage(s, c, r, messages[Len(messages)]), c, r,
                         SubSeq(messages, 1, Len(messages) - 1))

\* bufferedMessages.forEach((data) => handleMessage({ data }))
RECURSIVE forEach(_, _, _, _)
forEach(s, c, r, messages) ==
  IF messages = <<>> THEN s
  ELSE forEach(handleMessage(s, c, r, Head(messages)), c, r, Tail(messages))

\* keepAlive(conn, pingTimeoutMs, logger): the flag, the interval, the 'pong'
\* and the 'close' listener
keepAlive(s, c) ==
  [s EXCEPT !.conn[c].isAlive = TRUE,
            !.conn[c].pingInterval = "set",
            !.conn[c].onClose = @ \cup {"keepAlive"}]

\* IWebSocket.ping()
ping(s, c) ==
  [s EXCEPT !.conn[c].calls = Append(@, [op |-> "ping", code |-> 0])]

clearInterval(s, c) == [s EXCEPT !.conn[c].pingInterval = "cleared"]

\* a watchdog that pings at every tick
pingIntervalCallback_alwaysPings(s, c, pingThrows) ==
  LET s1 == [s EXCEPT !.conn[c].isAlive = FALSE]
  IN  IF pingThrows
      THEN clearInterval(
             terminate(logger(s1, c, "error", "error during keep alive", 0, 0), c), c)
      ELSE ping(s1, c)

\* the setInterval callback of keepAlive; pingThrows says whether conn.ping()
\* throws if it is called
pingIntervalCallback(s, c, pingThrows) ==
  IF s.conn[c].isAlive
  THEN LET s1 == [s EXCEPT !.conn[c].isAlive = FALSE]
       IN  IF pingThrows
           THEN clearInterval(
                  terminate(logger(s1, c, "error", "error during keep alive", 0, 0), c), c)
           ELSE ping(s1, c)
  ELSE terminate(clearInterval(s, c), c)

\* the 'pong' listener of keepAlive
onPong(s, c) == [s EXCEPT !.conn[c].isAlive = TRUE]

\* writeSyncStep1(encoder, yDoc): the state vector of the document
RECURSIVE writeSyncStep1(_)
writeSyncStep1(yDoc) ==
  IF yDoc = {} THEN "syncStep1"
  ELSE LET u == CHOOSE x \in yDoc : TRUE
       IN  writeSyncStep1(yDoc \ {u}) \o " " \o u

\* sendSyncStepOne: the first sync step, then the presence states, if any
sendSyncStepOne(s, c, r) ==
  LET s1 == send(s, c, writeSyncStep1(s.room[r].yDoc))
      awarenessStates == s1.room[r].awareness
  IN  IF awarenessStates # {}
      THEN send(s1, c, encodeAwarenessUpdate(awarenessStates, awarenessStates))
      ELSE s1

\* setupNewConnection after its invariant: attach, the 'close' and 'message'
\* listeners, and the first sync step
setupNewConnection(s, c, r) ==
  LET s1 == addConnection(s, r, c)
      s2 == [s1 EXCEPT !.conn[c].onClose = @ \cup {"room"},
                       !.conn[c].onMessage = "relay"]
  IN  sendSyncStepOne(keepAlive(s2, c), c, r)

\* handleConnection returns without attaching; its bufferedMessages array is
\* unreachable from then on
return(s, c, outcome) ==
  [s EXCEPT !.conn[c].pc = "done", !.conn[c].outcome = outcome,
            !.conn[c].bufferedMessages = <<>>, !.conn[c].size = 0,
            !.conn[c].arrived = <<>>]

\* what docNameFromRequest does when it throws instead of returning a name
Throws == "throws"

\* the catch of handleConnection's second try
catch(s, c) ==
  return(close_(logger(s, c, "error", "error setting up new connection", 0, 0),
                c, INTERNAL_ERROR), c, "setupError")

\* an afterShouldConnect that drops a connection without a name silently
afterShouldConnect_invalidNameSilent(s, c, v, by, docName, createDoc) ==
  CASE v = "rejected" ->
         return(terminate(logger(s, c, "error", "error handling new connection", 0, 0), c),
                c, "authError")
    [] v = "false" -> return(s, c, IF by = "closed" THEN "abandoned" ELSE "unauthorized")
    [] OTHER ->
         IF docName = Throws
         THEN catch(s, c)
         ELSE IF docName = NoName
         THEN return(s, c, "invalidName")
         ELSE LET s1 == getOrCreateRoom(s, docName, createDoc)
                  r == s1.rooms[docName]
                  s2 == [s1 EXCEPT !.conn[c].pc = "load",
                                   !.conn[c].room = r,
                                   !.room[r].waiting = Append(@, c)]
              IN  IF r = 0 THEN catch(s, c)
                  ELSE bufferUntilReady(s2, c, s2.room[r].loadPromise)

\* an afterShouldConnect that takes a rejection for a refusal
afterShouldConnect_rejectionIsRefusal(s, c, v, by, docName, createDoc) ==
  CASE v \in {"rejected", "false"} ->
         return(s, c, IF by = "closed" THEN "abandoned"
                      ELSE IF v = "rejected" THEN "authError" ELSE "unauthorized")
    [] OTHER ->
         IF docName = Throws
         THEN catch(s, c)
         ELSE IF docName = NoName
         THEN return(logger(close_(s, c, UNSUPPORTED), c, "error", "invalid doc name", 0, 0),
                     c, "invalidName")
         ELSE LET s1 == getOrCreateRoom(s, docName, createDoc)
                  r == s1.rooms[docName]
                  s2 == [s1 EXCEPT !.conn[c].pc = "load",
                                   !.conn[c].room = r,
                                   !.room[r].waiting = Append(@, c)]
              IN  IF r = 0 THEN catch(s, c)
                  ELSE bufferUntilReady(s2, c, s2.room[r].loadPromise)

\* an afterShouldConnect that goes on with a connection shouldConnect refused
afterShouldConnect_admitsRefused(s, c, v, by, docName, createDoc) ==
  CASE v = "rejected" ->
         return(terminate(logger(s, c, "error", "error handling new connection", 0, 0), c),
                c, "authError")
    [] v = "false" /\ by = "closed" -> return(s, c, "abandoned")
    [] OTHER ->
         IF docName = Throws
         THEN catch(s, c)
         ELSE IF docName = NoName
         THEN return(logger(close_(s, c, UNSUPPORTED), c, "error", "invalid doc name", 0, 0),
                     c, "invalidName")
         ELSE LET s1 == getOrCreateRoom(s, docName, createDoc)
                  r == s1.rooms[docName]
                  s2 == [s1 EXCEPT !.conn[c].pc = "load",
                                   !.conn[c].room = r,
                                   !.room[r].waiting = Append(@, c)]
              IN  IF r = 0 THEN catch(s, c)
                  ELSE bufferUntilReady(s2, c, s2.room[r].loadPromise)

\* an afterShouldConnect that closes the connection it refuses
afterShouldConnect_closesRefused(s, c, v, by, docName, createDoc) ==
  CASE v = "rejected" ->
         return(terminate(logger(s, c, "error", "error handling new connection", 0, 0), c),
                c, "authError")
    [] v = "false" -> return(close_(s, c, NORMAL), c,
                             IF by = "closed" THEN "abandoned" ELSE "unauthorized")
    [] OTHER ->
         IF docName = Throws
         THEN catch(s, c)
         ELSE IF docName = NoName
         THEN return(logger(close_(s, c, UNSUPPORTED), c, "error", "invalid doc name", 0, 0),
                     c, "invalidName")
         ELSE LET s1 == getOrCreateRoom(s, docName, createDoc)
                  r == s1.rooms[docName]
                  s2 == [s1 EXCEPT !.conn[c].pc = "load",
                                   !.conn[c].room = r,
                                   !.room[r].waiting = Append(@, c)]
              IN  IF r = 0 THEN catch(s, c)
                  ELSE bufferUntilReady(s2, c, s2.room[r].loadPromise)

\* handleConnection from the first await to the second; docName is what
\* docNameFromRequest returns for the connection's request (or Throws), createDoc
\* what createDoc() does if a Room has to be made
afterShouldConnect(s, c, v, by, docName, createDoc) ==
  CASE v = "rejected" ->
         return(terminate(logger(s, c, "error", "error handling new connection", 0, 0), c),
                c, "authError")
    [] v = "false" -> return(s, c, IF by = "closed" THEN "abandoned" ELSE "unauthorized")
    [] OTHER ->
         IF docName = Throws
         THEN catch(s, c)
         ELSE IF docName = NoName
         THEN return(logger(close_(s, c, UNSUPPORTED), c, "error", "invalid doc name", 0, 0),
                     c, "invalidName")
         ELSE LET s1 == getOrCreateRoom(s, docName, createDoc)
                  r == s1.rooms[docName]
                  s2 == [s1 EXCEPT !.conn[c].pc = "load",
                                   !.conn[c].room = r,
                                   !.room[r].waiting = Append(@, c)]
              IN  IF r = 0 THEN catch(s, c)
                  ELSE bufferUntilReady(s2, c, s2.room[r].loadPromise)

\* an afterLoad that lets the exception of setupNewConnection escape
afterLoad_setupThrowEscapes(s, c, v, by) ==
  LET r == s.conn[c].room
  IN  IF v # "true"
      THEN return(close_(s, c, INTERNAL_ERROR), c,
                  IF by = "closed" THEN "abandoned" ELSE "loadFailed")
      ELSE IF s.conn[c].readyState # OPEN
           THEN return(s, c, "setupError")
           ELSE LET s1 == forEach(setupNewConnection(s, c, r), c, r,
                                  s.conn[c].bufferedMessages)
                IN  [s1 EXCEPT !.conn[c].pc = "attached",
                               !.conn[c].bufferedMessages = <<>>,
                               !.conn[c].size = 0]

\* an afterLoad that leaves the connection of a failed load alone
afterLoad_noCloseOnFailure(s, c, v, by) ==
  LET r == s.conn[c].room
  IN  IF v # "true"
      THEN return(s, c, IF by = "closed" THEN "abandoned" ELSE "loadFailed")
      ELSE IF s.conn[c].readyState # OPEN
           THEN catch(s, c)
           ELSE LET s1 == forEach(setupNewConnection(s, c, r), c, r,
                                  s.conn[c].bufferedMessages)
                IN  [s1 EXCEPT !.conn[c].pc = "attached",
                               !.conn[c].bufferedMessages = <<>>,
                               !.conn[c].size = 0]

\* an afterLoad that takes the Room out of the Registry when the connection
\* that waited for it has closed
afterLoad_abandonUnregisters(s, c, v, by) ==
  LET r == s.conn[c].room
  IN  IF v # "true"
      THEN return(close_([s EXCEPT !.rooms[s.room[r].name] = IF by = "closed" THEN 0 ELSE @],
                         c, INTERNAL_ERROR), c,
                  IF by = "closed" THEN "abandoned" ELSE "loadFailed")
      ELSE IF s.conn[c].readyState # OPEN
           THEN catch(s, c)
           ELSE LET s1 == forEach(setupNewConnection(s, c, r), c, r,
                                  s.conn[c].bufferedMessages)
                IN  [s1 EXCEPT !.conn[c].pc = "attached",
                               !.conn[c].bufferedMessages = <<>>,
                               !.conn[c].size = 0]

\* an afterLoad that sets the connection up although the load failed
afterLoad_attachesOnFailure(s, c, v, by) ==
  LET r == s.conn[c].room
  IN  IF by = "closed"
      THEN return(close_(s, c, INTERNAL_ERROR), c, "abandoned")
      ELSE IF s.conn[c].readyState # OPEN
           THEN catch(s, c)
           ELSE LET s1 == forEach(setupNewConnection(s, c, r), c, r,
                                  s.conn[c].bufferedMessages)
                IN  [s1 EXCEPT !.conn[c].pc = "attached",
                               !.conn[c].bufferedMessages = <<>>,
                               !.conn[c].size = 0]

\* an afterLoad whose setupNewConnection does not check that the socket is open
afterLoad_noInvariant(s, c, v, by) ==
  LET r == s.conn[c].room
  IN  IF v # "true"
      THEN return(close_(s, c, INTERNAL_ERROR), c,
                  IF by = "closed" THEN "abandoned" ELSE "loadFailed")
      ELSE LET s1 == forEach(setupNewConnection(s, c, r), c, r,
                             s.conn[c].bufferedMessages)
           IN  [s1 EXCEPT !.conn[c].pc = "attached",
                          !.conn[c].bufferedMessages = <<>>,
                          !.conn[c].size = 0]

\* an afterLoad that replays the backlog before it sets the connection up
afterLoad_replaysBeforeSetup(s, c, v, by) ==
  LET r == s.conn[c].room
  IN  IF v # "true"
      THEN return(close_(s, c, INTERNAL_ERROR), c,
                  IF by = "closed" THEN "abandoned" ELSE "loadFailed")
      ELSE IF s.conn[c].readyState # OPEN
           THEN catch(s, c)
           ELSE LET s1 == setupNewConnection(
                            forEach(s, c, r, s.conn[c].bufferedMessages), c, r)
                IN  [s1 EXCEPT !.conn[c].pc = "attached",
                               !.conn[c].bufferedMessages = <<>>,
                               !.conn[c].size = 0]

\* handleConnection after the second await
afterLoad(s, c, v, by) ==
  LET r == s.conn[c].room
  IN  IF v # "true"
      THEN return(close_(s, c, INTERNAL_ERROR), c,
                  IF by = "closed" THEN "abandoned" ELSE "loadFailed")
      ELSE IF s.conn[c].readyState # OPEN
           THEN catch(s, c)
           ELSE LET s1 == forEach(setupNewConnection(s, c, r), c, r,
                                  s.conn[c].bufferedMessages)
                IN  [s1 EXCEPT !.conn[c].pc = "attached",
                               !.conn[c].bufferedMessages = <<>>,
                               !.conn[c].size = 0]

\* ------------------------------------------------------------- events
\* No event is taken while a microtask is pending.
Idle == mq = <<>>

\* a handleConnection that does not look at the socket's readyState
handleConnection_noReadyStateCheck(c, readyState, shouldConnect) ==
  /\ Idle
  /\ conn[c].pc = "new"
  /\ \A d \in Conns : Before(d, c) => conn[d].pc # "new"
  /\ LET s0 == [Cur EXCEPT !.conn[c].readyState = readyState,
                           !.conn[c].shouldConnect = shouldConnect]
     IN  IF isClosed
         THEN Store(return(close_(s0, c, NORMAL), c, "serverClosed"))
         ELSE Store(bufferUntilReady([s0 EXCEPT !.conn[c].pc = "auth"], c, shouldConnect))
  /\ UNCHANGED <<isClosed, docStorage, config, timer, sentN>>

\* a handleConnection that does not look at isClosed
handleConnection_noClosedCheck(c, readyState, shouldConnect) ==
  /\ Idle
  /\ conn[c].pc = "new"
  /\ \A d \in Conns : Before(d, c) => conn[d].pc # "new"
  /\ LET s0 == [Cur EXCEPT !.conn[c].readyState = readyState,
                           !.conn[c].shouldConnect = shouldConnect]
     IN  IF s0.conn[c].readyState \in {CLOSING, CLOSED}
         THEN Store(return(
                logger(s0, c, "warn",
                       "received a socket that is already closing or closed", 0, 0),
                c, "ignored"))
         ELSE Store(bufferUntilReady([s0 EXCEPT !.conn[c].pc = "auth"], c, shouldConnect))
  /\ UNCHANGED <<isClosed, docStorage, config, timer, sentN>>

\* yjss.handleConnection(conn, request, shouldConnect), up to its first await;
\* readyState is the state of the socket the caller hands over
handleConnection(c, readyState, shouldConnect) ==
  /\ Idle
  /\ conn[c].pc = "new"
  /\ \A d \in Conns : Before(d, c) => conn[d].pc # "new"
  /\ LET s0 == [Cur EXCEPT !.conn[c].readyState = readyState,
                           !.conn[c].shouldConnect = shouldConnect]
     IN  IF isClosed
         THEN Store(return(close_(s0, c, NORMAL), c, "serverClosed"))
         ELSE IF s0.conn[c].readyState \in {CLOSING, CLOSED}
              THEN Store(return(
                     logger(s0, c, "warn",
                            "received a socket that is already closing or closed", 0, 0),
                     c, "ignored"))
              ELSE Store(bufferUntilReady([s0 EXCEPT !.conn[c].pc = "auth"], c, shouldConnect))
  /\ UNCHANGED <<isClosed, docStorage, config, timer, sentN>>

\* the caller's shouldConnect promise settles while handleConnection awaits it
\* (nothing observes it once the race is over); a caller that refuses the
\* connection may have closed the socket itself just before (README:
\* conn.close(4001), then return false)
shouldConnectSettles(c, v, callerCloses) ==
  /\ Idle
  /\ conn[c].shouldConnect = "pending"
  /\ conn[c].pc = "auth"
  /\ callerCloses => v = "false"
  /\ LET s0 == [Cur EXCEPT !.conn[c].shouldConnect = v,
                           !.conn[c].readyState =
                              IF callerCloses /\ @ = OPEN THEN CLOSING ELSE @]
     IN  Store(queueMicrotask(s0, "race", c, v, "gate"))
  /\ UNCHANGED <<isClosed, docStorage, config, timer, sentN>>

\* docStorage.loadDoc(name, room.yDoc) settles: it may have merged the persisted
\* state into the document; a rejection is logged and becomes false.
loadDocSettles(r, ok, persisted) ==
  /\ Idle
  /\ r \in DOMAIN room
  /\ room[r].loadPromise = "pending"
  /\ LET s0 == IF persisted THEN applyUpdate(Cur, r, "stored") ELSE Cur
         s1 == IF ok
               THEN [s0 EXCEPT !.room[r].loadPromise = "true"]
               ELSE [s0 EXCEPT !.room[r].loadPromise = "false",
                               !.room[r].log = Append(@, [level |-> "error",
                                                           msg |-> "error loading Y.Doc, closing all connections"])]
         waiting == s1.room[r].waiting
         s2 == [s1 EXCEPT !.room[r].waitedOut = {waiting[i] : i \in 1..Len(waiting)},
                          !.mq = @ \o [i \in 1..Len(waiting) |->
                   [k |-> "race", c |-> waiting[i],
                    v |-> s1.room[r].loadPromise, by |-> "gate"]]]
     IN  Store(s2)
  /\ UNCHANGED <<isClosed, docStorage, config, timer, sentN>>

\* a frame arrives on a socket given to the server that has not closed; when
\* handleConnection has returned without attaching, no listener of the server
\* is left on it
message(c, f) ==
  /\ Idle
  /\ sentN < MaxFrames
  /\ conn[c].pc \in {"auth", "load", "attached", "done"}
  /\ conn[c].readyState \in {OPEN, CLOSING}
  /\ LET s0 == IF conn[c].pc \in {"attached", "done"} THEN Cur
               ELSE [Cur EXCEPT !.conn[c].arrived = Append(@, f)]
     IN  CASE conn[c].onMessage = "buffer" ->
                Store(onMessage(s0, c, f,
                                IF conn[c].pc = "auth"
                                THEN config.maxBufferedBytesBeforeConnect
                                ELSE config.maxBufferedBytes))
           [] conn[c].onMessage = "relay" -> Store(handleMessage(s0, c, conn[c].room, f))
           [] OTHER -> Store(s0)
  /\ sentN' = sentN + 1
  /\ UNCHANGED <<isClosed, docStorage, config, timer>>

\* a 'close' notification that leaves the watchdog's interval running
closed_keepsInterval(c) ==
  /\ Idle
  /\ conn[c].pc \in {"auth", "load", "attached"}
  /\ conn[c].readyState \in {OPEN, CLOSING}
  /\ LET s0 == [Cur EXCEPT !.conn[c].readyState = CLOSED]
         s1 == IF "buffer" \in conn[c].onClose THEN onClose(s0, c) ELSE s0
         s2 == IF "room" \in conn[c].onClose THEN handleClose(s1, c, conn[c].room) ELSE s1
     IN  Store(s2)
  /\ UNCHANGED <<isClosed, docStorage, config, timer, sentN>>

\* a socket the server listens to emits 'close': the listeners run in the
\* order they were added
closed(c) ==
  /\ Idle
  /\ conn[c].pc \in {"auth", "load", "attached"}
  /\ conn[c].readyState \in {OPEN, CLOSING}
  /\ LET s0 == [Cur EXCEPT !.conn[c].readyState = CLOSED]
         s1 == IF "buffer" \in conn[c].onClose THEN onClose(s0, c) ELSE s0
         s2 == IF "room" \in conn[c].onClose THEN handleClose(s1, c, conn[c].room) ELSE s1
         s3 == IF "keepAlive" \in conn[c].onClose THEN clearInterval(s2, c) ELSE s2
     IN  Store(s3)
  /\ UNCHANGED <<isClosed, docStorage, config, timer, sentN>>

\* the promise of the oldest onUpdate call that has not settled settles; the
\* catch logs a rejection
onUpdateSettles(r, ok) ==
  /\ Idle
  /\ r \in DOMAIN room
  /\ room[r].onUpdateSettled < Len(room[r].onUpdateCalls)
  /\ room' = [room EXCEPT
       ![r].onUpdateSettled = @ + 1,
       ![r].log = IF ok THEN @
                  ELSE Append(@, [level |-> "warn", msg |-> "error calling onUpdate"])]
  /\ UNCHANGED <<isClosed, docStorage, config, rooms, conn, mq, timer, sentN>>

\* a storeDoc whose rejection skips the release of the document
storeDocSettles_noFinally(r, ok) ==
  /\ Idle
  /\ r \in DOMAIN room
  /\ room[r].storeDoc = "pending"
  /\ room' = [room EXCEPT
       ![r].storeDoc = "settled",
       ![r].log = IF ok THEN @
                  ELSE Append(@, [level |-> "warn", msg |-> "error calling storeDoc"]),
       ![r].yDocDestroyed = ok]
  /\ UNCHANGED <<isClosed, docStorage, config, rooms, conn, mq, timer, sentN>>

\* the promise storeDoc returned to destroy() settles: the catch logs a
\* rejection, the finally destroys the document
storeDocSettles(r, ok) ==
  /\ Idle
  /\ r \in DOMAIN room
  /\ room[r].storeDoc = "pending"
  /\ room' = [room EXCEPT
       ![r].storeDoc = "settled",
       ![r].log = IF ok THEN @
                  ELSE Append(@, [level |-> "warn", msg |-> "error calling storeDoc"]),
       ![r].yDocDestroyed = TRUE]
  /\ UNCHANGED <<isClosed, docStorage, config, rooms, conn, mq, timer, sentN>>

\* the watchdog's interval of an attached connection elapses
tick(c, pingThrows) ==
  /\ Idle
  /\ conn[c].pingInterval = "set"
  /\ Len(conn[c].wd) < MaxKeepAliveEvents
  /\ LET s0 == [Cur EXCEPT !.conn[c].wd =
                   Append(@, IF pingThrows /\ conn[c].isAlive THEN "throw" ELSE "tick")]
     IN  Store(pingIntervalCallback(s0, c, pingThrows))
  /\ UNCHANGED <<isClosed, docStorage, config, timer, sentN>>

\* a pong arrives on a socket that has not closed (once the interval is cleared
\* nothing reads the flag the listener sets)
pong(c) ==
  /\ Idle
  /\ conn[c].pingInterval = "set"
  /\ conn[c].readyState \in {OPEN, CLOSING}
  /\ Len(conn[c].wd) < MaxKeepAliveEvents
  /\ Store(onPong([Cur EXCEPT !.conn[c].wd = Append(@, "pong")], c))
  /\ UNCHANGED <<isClosed, docStorage, config, timer, sentN>>

\* the codes the caller gives to yjss.close()
Codes == {NORMAL, UNSUPPORTED}

\* a close() that does not look at isClosed
closeCall_noGuard(code, terminateTimeout) ==
  LET allRooms == {rooms[n] : n \in Names} \ {0}
      attached == UNION {room[r].conns : r \in allRooms}
  IN  [isClosed |-> TRUE,
       conn |-> [c \in Conns |->
                  IF c \in attached THEN close_(Cur, c, code).conn[c] ELSE conn[c]],
       rooms |-> [n \in Names |-> 0],
       timer |-> IF terminateTimeout /\ allRooms # {}
                 THEN [state |-> "armed", rooms |-> allRooms]
                 ELSE timer]

\* a close() that closes with NORMAL whatever code it is given
closeCall_ignoresCode(code, terminateTimeout) ==
  IF isClosed
  THEN [isClosed |-> isClosed, conn |-> conn, rooms |-> rooms, timer |-> timer]
  ELSE LET allRooms == {rooms[n] : n \in Names} \ {0}
           attached == UNION {room[r].conns : r \in allRooms}
       IN  [isClosed |-> TRUE,
            conn |-> [c \in Conns |->
                       IF c \in attached THEN close_(Cur, c, NORMAL).conn[c] ELSE conn[c]],
            rooms |-> [n \in Names |-> 0],
            timer |-> IF terminateTimeout /\ allRooms # {}
                      THEN [state |-> "armed", rooms |-> allRooms]
                      ELSE timer]

\* yjss.close(code, terminateTimeout), as the values it leaves in isClosed, the
\* sockets, the Registry and the timer; a timer that captured no room is not
\* kept, its callback has nothing to iterate over
closeCall(code, terminateTimeout) ==
  IF isClosed
  THEN [isClosed |-> isClosed, conn |-> conn, rooms |-> rooms, timer |-> timer]
  ELSE LET allRooms == {rooms[n] : n \in Names} \ {0}
           attached == UNION {room[r].conns : r \in allRooms}
       IN  [isClosed |-> TRUE,
            conn |-> [c \in Conns |->
                       IF c \in attached THEN close_(Cur, c, code).conn[c] ELSE conn[c]],
            rooms |-> [n \in Names |-> 0],
            timer |-> IF terminateTimeout /\ allRooms # {}
                      THEN [state |-> "armed", rooms |-> allRooms]
                      ELSE timer]

\* yjss.close(code, terminateTimeout) is called; it returns at once
close(code, terminateTimeout) ==
  /\ Idle
  /\ LET after == closeCall(code, terminateTimeout)
     IN  /\ isClosed' = after.isClosed
         /\ conn' = after.conn
         /\ rooms' = after.rooms
         /\ timer' = after.timer
  /\ UNCHANGED <<docStorage, config, room, mq, sentN>>

\* a callback that iterates over the Registry, not over the rooms close() captured
terminateTimeoutElapses_readsRegistry ==
  /\ Idle
  /\ timer.state = "armed"
  /\ LET attached == UNION {room[r].conns : r \in {rooms[n] : n \in Names} \ {0}}
     IN  conn' = [c \in Conns |->
           IF c \in attached THEN terminate(Cur, c).conn[c] ELSE conn[c]]
  /\ timer' = [state |-> "none", rooms |-> {}]
  /\ UNCHANGED <<isClosed, docStorage, config, rooms, room, mq, sentN>>

\* the setTimeout callback of close()
terminateTimeoutElapses ==
  /\ Idle
  /\ timer.state = "armed"
  /\ LET attached == UNION {room[r].conns : r \in timer.rooms}
     IN  conn' = [c \in Conns |->
           IF c \in attached THEN terminate(Cur, c).conn[c] ELSE conn[c]]
  /\ timer' = [state |-> "none", rooms |-> {}]
  /\ UNCHANGED <<isClosed, docStorage, config, rooms, room, mq, sentN>>

\* --------------------------------------------------------- microtasks
raceSettles ==
  /\ mq # <<>>
  /\ Head(mq).k = "race"
  /\ LET m == Head(mq)
     IN  Store(bufferUntilReadyFinally([Cur EXCEPT !.mq = Tail(@)], m.c, m.v, m.by))
  /\ UNCHANGED <<isClosed, docStorage, config, timer, sentN>>

handleConnectionResumes(docName, createDoc) ==
  /\ mq # <<>>
  /\ Head(mq).k = "resume"
  /\ LET m == Head(mq)
         s0 == [Cur EXCEPT !.mq = Tail(@)]
     IN  IF conn[m.c].pc = "auth"
         THEN Store(afterShouldConnect(s0, m.c, m.v, m.by, docName, createDoc))
         ELSE Store(afterLoad(s0, m.c, m.v, m.by))
  /\ UNCHANGED <<isClosed, docStorage, config, timer, sentN>>

Next ==
  \/ \E c \in Conns, rs \in {OPEN, CLOSING, CLOSED}, g \in {"true", "pending"} :
       handleConnection(c, rs, g)
  \/ \E c \in Conns, v \in {"true", "false", "rejected"}, callerCloses \in BOOLEAN :
       shouldConnectSettles(c, v, callerCloses)
  \/ \E r \in DOMAIN room, ok \in BOOLEAN, persisted \in BOOLEAN : loadDocSettles(r, ok, persisted)
  \/ \E c \in Conns, f \in Frames : message(c, f)
  \/ \E c \in Conns : closed(c)
  \/ \E code \in Codes, t \in BOOLEAN : close(code, t)
  \/ terminateTimeoutElapses
  \/ raceSettles
  \/ \E n \in Names \cup {NoName, Throws}, createDoc \in {"ok", "throws"} :
       handleConnectionResumes(n, createDoc)

Spec == Init /\ [][Next]_vars

\* The server with its watchdogs running: the interval of an attached
\* connection elapses and pongs arrive; the clients send no frames.
NextKeepAlive ==
  \/ \E c \in Conns, rs \in {OPEN, CLOSING, CLOSED}, g \in {"true", "pending"} :
       handleConnection(c, rs, g)
  \/ \E c \in Conns, v \in {"true", "false", "rejected"}, callerCloses \in BOOLEAN :
       shouldConnectSettles(c, v, callerCloses)
  \/ \E r \in DOMAIN room, ok \in BOOLEAN, persisted \in BOOLEAN : loadDocSettles(r, ok, persisted)
  \/ \E c \in Conns : closed(c)
  \/ \E code \in Codes, t \in BOOLEAN : close(code, t)
  \/ terminateTimeoutElapses
  \/ raceSettles
  \/ \E n \in Names \cup {NoName, Throws}, createDoc \in {"ok", "throws"} :
       handleConnectionResumes(n, createDoc)
  \/ \E c \in Conns, pingThrows \in BOOLEAN : tick(c, pingThrows)
  \/ \E c \in Conns : pong(c)

SpecKeepAlive == Init /\ [][NextKeepAlive]_vars

\* The server with a docStorage whose onUpdate and storeDoc promises settle,
\* fulfilled or rejected; the connections are handed over open and authorized,
\* their requests name a document, and the server is not shut down.
InitHooks == Init /\ docStorage = "store"

NextHooks ==
  \/ \E c \in Conns : handleConnection(c, OPEN, "true")
  \/ \E r \in DOMAIN room, ok \in BOOLEAN, persisted \in BOOLEAN : loadDocSettles(r, ok, persisted)
  \/ \E c \in Conns, f \in Frames : message(c, f)
  \/ \E c \in Conns : closed(c)
  \/ raceSettles
  \/ \E n \in Names : handleConnectionResumes(n, "ok")
  \/ \E r \in DOMAIN room, ok \in BOOLEAN : onUpdateSettles(r, ok)
  \/ \E r \in DOMAIN room, ok \in BOOLEAN : storeDocSettles(r, ok)

SpecHooks == InitHooks /\ [][NextHooks]_vars

\* The server made with any two ceilings, the second smaller than the first
\* included, and a docStorage, so that connections wait in both phases; the
\* connections are handed over open, their requests name a document, and the
\* server is not shut down.
Ceilings == 1..maxBufferedBytes

InitCeilings ==
  /\ isClosed = FALSE
  /\ docStorage = "store"
  /\ config \in {CreateYjsServerOptions([maxBufferedBytesBeforeConnect |-> b,
                                         maxBufferedBytes |-> l]) : b, l \in Ceilings}
  /\ rooms = [n \in Names |-> 0]
  /\ room = <<>>
  /\ conn = [c \in Conns |-> NewConn]
  /\ mq = <<>>
  /\ timer = [state |-> "none", rooms |-> {}]
  /\ sentN = 0

NextCeilings ==
  \/ \E c \in Conns, g \in {"true", "pending"} : handleConnection(c, OPEN, g)
  \/ \E c \in Conns, v \in {"true", "false", "rejected"} : shouldConnectSettles(c, v, FALSE)
  \/ \E r \in DOMAIN room, ok \in BOOLEAN, persisted \in BOOLEAN : loadDocSettles(r, ok, persisted)
  \/ \E c \in Conns, f \in Frames : message(c, f)
  \/ \E c \in Conns : closed(c)
  \/ raceSettles
  \/ \E n \in Names : handleConnectionResumes(n, "ok")

SpecCeilings == InitCeilings /\ [][NextCeilings]_vars

\* The server without a docStorage, its clients sending awareness frames for
\* presence ids of their own and for one they share; the connections are
\* handed over open and authorized, their requests name a document, and the
\* server is not shut down.
InitPresence == Init /\ docStorage = "none"

NextPresence ==
  \/ \E c \in Conns : handleConnection(c, OPEN, "true")
  \/ \E c \in Conns, f \in Frames \cup PresenceFrames : message(c, f)
  \/ \E c \in Conns : closed(c)
  \/ raceSettles
  \/ \E n \in Names : handleConnectionResumes(n, "ok")

SpecPresence == InitPresence /\ [][NextPresence]_vars

\* The stream under an open socket goes away: from now on conn.send throws or
\* hands an error to its callback, while readyState is still OPEN.
sendBreaks(c) ==
  /\ Idle
  /\ conn[c].pc \in {"auth", "load", "attached"}
  /\ conn[c].readyState = OPEN
  /\ ~conn[c].sendFails
  /\ conn' = [conn EXCEPT ![c].sendFails = TRUE]
  /\ UNCHANGED <<isClosed, docStorage, config, rooms, room, mq, timer, sentN>>

\* The server without a docStorage, with sockets whose sends can fail; the
\* connections are handed over open and authorized, and the server is not
\* shut down.
NextSendFails ==
  \/ \E c \in Conns : handleConnection(c, OPEN, "true")
  \/ \E c \in Conns, f \in Frames : message(c, f)
  \/ \E c \in Conns : closed(c)
  \/ \E c \in Conns : sendBreaks(c)
  \/ raceSettles
  \/ \E n \in Names : handleConnectionResumes(n, "ok")

SpecSendFails == InitPresence /\ [][NextSendFails]_vars

\* ------------------------------------------------------------- claims
IsPrefix(a, b) == Len(a) <= Len(b) /\ a = SubSeq(b, 1, Len(a))
Binary(frames) == SelectSeq(frames, LAMBDA f : f.bin)
Logged(c, msg) == \E i \in 1..Len(conn[c].log) : conn[c].log[i].msg = msg
Called(c, call) == \E i \in 1..Len(conn[c].calls) : conn[c].calls[i] = call
Live(r) == room[r].destroyed = 0

\* C1: a connection that is attached had every frame that arrived while
\* handleConnection awaited handed to handleMessage by the replay, once each
\* and in the order of arrival.
C1_NoLossStrictOrder ==
  \A c \in Conns : conn[c].pc = "attached" => conn[c].relayed = conn[c].arrived

C1_Witness ==
  \E c \in Conns :
    /\ conn[c].pc = "attached"
    /\ docStorage = "store"
    /\ Len(conn[c].arrived) = 2
    /\ conn[c].arrived[1] # conn[c].arrived[2]
    /\ conn[c].relayed = conn[c].arrived

\* C2: whenever a frame can arrive (no continuation is pending and the socket
\* has not emitted 'close') on a connection that handleConnection is admitting,
\* the buffering listener is installed, and on an attached connection the
\* relay listener is.
C2_NoListenerGap ==
  \A c \in Conns :
    (Idle /\ conn[c].readyState \in {OPEN, CLOSING}) =>
       /\ conn[c].pc \in {"auth", "load"} => conn[c].onMessage = "buffer"
       /\ conn[c].pc = "attached" => conn[c].onMessage = "relay"

\* the second buffering phase is listening, with the backlog of the first
C2_Witness ==
  \E c \in Conns :
    /\ Idle
    /\ conn[c].pc = "load"
    /\ conn[c].readyState = OPEN
    /\ conn[c].onMessage = "buffer"
    /\ Len(conn[c].bufferedMessages) = 2

\* C3: while the server has not been shut down, the Rooms of one name that are not destroyed are at most
\* one at any moment, it is the registered one, loadDoc was called once for it, and every
\* connection waiting on a load or attached for that name is on that Room.
C3_OneRoomPerName ==
  ~isClosed =>
  /\ \A r1, r2 \in DOMAIN room :
       (room[r1].name = room[r2].name /\ Live(r1) /\ Live(r2)) => r1 = r2
  /\ \A r \in DOMAIN room :
       /\ Live(r) => rooms[room[r].name] = r
       /\ docStorage # "none" => room[r].loadDocCalls = 1
  /\ \A c \in Conns :
       /\ conn[c].pc = "load" =>
            /\ conn[c].room \in DOMAIN room
            /\ Live(conn[c].room)
            /\ (Idle => \E i \in 1..Len(room[conn[c].room].waiting) :
                           room[conn[c].room].waiting[i] = c)
       /\ (conn[c].pc = "attached" /\ conn[c].readyState # CLOSED) =>
            /\ Live(conn[c].room)
            /\ c \in room[conn[c].room].conns

C3_Witness ==
  /\ ~isClosed
  /\ Len(room) = 1
  /\ room[1].conns = Conns
  /\ room[1].waitedOut = Conns
  /\ docStorage = "store"

\* C4: on a running server at rest, a Room is in the Registry exactly when a
\* connection is attached to it or its load is in flight with a connection
\* waiting on it.
C4_RegistryIff ==
  (Idle /\ ~isClosed) =>
    \A r \in DOMAIN room :
      rooms[room[r].name] = r <=>
        \/ room[r].conns # {}
        \/ room[r].loadPromise = "pending" /\ room[r].waiting # <<>>

\* C5: when a Room's load fails, the failure is logged once, every connection
\* that was waiting on it is closed with INTERNAL_ERROR once its continuation
\* has run, no connection is ever attached to the Room, no frame is replayed
\* to it, and storeDoc is not called for it.
C5_LoadFailureFanOut ==
  \A r \in DOMAIN room :
    room[r].loadPromise = "false" =>
      /\ room[r].everAttached = {}
      /\ room[r].conns = {}
      /\ room[r].storeDocCalls = <<>>
      /\ Len(room[r].log) = 1
      /\ room[r].log[1].level = "error"
      /\ \A c \in Conns :
           conn[c].room = r =>
             /\ conn[c].relayed = <<>>
             /\ conn[c].pc \in {"load", "done"}
             /\ conn[c].pc = "load" => ~Idle
             /\ conn[c].pc = "done" =>
                  /\ Called(c, [op |-> "close", code |-> INTERNAL_ERROR])
                  /\ conn[c].readyState # OPEN
                  /\ c \in room[r].waitedOut => conn[c].outcome = "loadFailed"

C5_Witness ==
  /\ Len(room) = 1
  /\ room[1].loadPromise = "false"
  /\ room[1].waitedOut = Conns
  /\ \A c \in Conns : conn[c].outcome = "loadFailed"

\* C6: with a store hook, storeDoc is not called for a Room while a connection
\* is attached to it; once the last connection of a dirty Room has detached it
\* has been called exactly once, with the Room's name and the document holding
\* every update merged into it; it is never called twice.
C6_StoreOnLastDisconnect ==
  docStorage = "store" =>
    \A r \in DOMAIN room :
      /\ room[r].conns # {} => room[r].storeDocCalls = <<>>
      /\ Len(room[r].storeDocCalls) <= 1
      /\ (room[r].isDirty /\ room[r].everAttached # {} /\ room[r].conns = {}) =>
            room[r].storeDocCalls = <<[name |-> room[r].name, yDoc |-> room[r].yDoc]>>

C6_Witness ==
  \E r \in DOMAIN room :
    /\ room[r].everAttached = Conns
    /\ room[r].conns = {}
    /\ Conns \subseteq room[r].yDoc
    /\ Len(room[r].storeDocCalls) = 1

\* C7: storeDoc is called only for a Room whose document a connection has
\* changed after the load; what loadDoc itself merged does not count.
C7_StoreOnlyIfMutatedAfterLoad ==
  \A r \in DOMAIN room :
    room[r].storeDocCalls # <<>> => room[r].yDoc \ {"stored"} # {}

\* C8: a Room is destroyed at most once, it is destroyed in the very step in
\* which the last connection attached to it detaches, and no connection is
\* attached to a destroyed Room.
C8_DestroyedOnce ==
  \A r \in DOMAIN room :
    /\ room[r].destroyed <= 1
    /\ room[r].destroyed = 1 <=> (room[r].everAttached # {} /\ room[r].conns = {})
    /\ room[r].destroyed = 1 => ~room[r].subscribed

C8_Witness ==
  \E r \in DOMAIN room :
    /\ room[r].destroyed = 1
    /\ room[r].everAttached = Conns
    /\ \A c \in Conns : conn[c].readyState = CLOSED

Overflowed(c) == Logged(c, "message buffer exceeded maxSize")

C10_AuthFalseIsSilent ==
  [][\A c \in Conns :
       conn'[c].outcome = "unauthorized" =>
         /\ conn[c].outcome # "unauthorized" =>
              /\ conn'[c].calls = conn[c].calls
              /\ conn'[c].log = conn[c].log
              /\ conn'[c].readyState = conn[c].readyState
              /\ rooms' = rooms
              /\ room' = room
         /\ conn[c].outcome = "unauthorized" => conn'[c] = conn[c]
         /\ conn'[c].room = 0
         /\ conn'[c].relayed = <<>>
         /\ conn'[c].onMessage = "none"
         /\ conn'[c].onClose = {}
         /\ \A i \in 1..Len(conn'[c].calls) : conn'[c].calls[i].op = "terminate"
         /\ \A r \in DOMAIN room' : c \notin room'[r].everAttached]_vars

C10_Witness ==
  \E c \in Conns :
    /\ conn[c].outcome = "unauthorized"
    /\ conn[c].readyState = OPEN
    /\ conn[c].calls = <<>>
    /\ sentN = MaxFrames
    /\ \A d \in Conns \ {c} : conn[d].pc = "attached"

\* C11: a connection whose shouldConnect is pending or resolved to false is
\* sent nothing, is attached to no Room and none of its frames is handed to
\* handleMessage or merged into a document; a frame it sends changes no Room,
\* nothing in the Registry and nothing of any other connection; and a frame
\* merges an update into a document only for a sender attached to that Room.
C11_NoInterference ==
  [][\A c \in Conns :
       /\ conn'[c].shouldConnect \in {"pending", "false"} =>
            /\ conn'[c].sent = {}
            /\ conn'[c].relayed = <<>>
            /\ \A r \in DOMAIN room' :
                 c \notin room'[r].everAttached /\ c \notin room'[r].yDoc
       /\ ( /\ conn[c].shouldConnect \in {"pending", "false"}
            /\ sentN' = sentN + 1
            /\ conn'[c] # conn[c] ) =>
              /\ room' = room
              /\ rooms' = rooms
              /\ \A d \in Conns \ {c} : conn'[d] = conn[d]
       /\ sentN' = sentN + 1 =>
            \A r \in DOMAIN room :
              c \in room'[r].yDoc \ room[r].yDoc =>
                c \in room[r].conns /\ conn[c].shouldConnect = "true"]_vars

\* c2 waits for its authorization with a frame buffered while c1, attached,
\* has had its update merged and broadcast
C11_Witness ==
  /\ conn["c2"].pc = "auth"
  /\ conn["c2"].shouldConnect = "pending"
  /\ conn["c2"].arrived # <<>>
  /\ conn["c1"].pc = "attached"
  /\ "c1" \in room[conn["c1"].room].yDoc
  /\ "c1" \in conn["c1"].sent

Errors(log) == SelectSeq(log, LAMBDA e : e.level = "error")

\* C12: once the continuation has run, a connection whose shouldConnect
\* rejected has been terminated and one error has been logged, in the step in
\* which handleConnection learnt of it; that step leaves the Registry and the
\* Rooms alone, the connection has no Room and is attached nowhere, and the
\* server does nothing more to it.
C12_AuthRejectionTerminates ==
  [][\A c \in Conns :
       /\ (conn'[c].shouldConnect = "rejected" /\ mq' = <<>>) =>
            conn'[c].outcome = "authError"
       /\ conn'[c].outcome = "authError" =>
            /\ conn[c].outcome # "authError" =>
                 /\ conn'[c].calls = Append(conn[c].calls, [op |-> "terminate", code |-> 0])
                 /\ conn'[c].log = Append(conn[c].log,
                       [level |-> "error", msg |-> "error handling new connection",
                        size |-> 0, maxSize |-> 0])
                 /\ rooms' = rooms
                 /\ room' = room
            /\ conn[c].outcome = "authError" => conn'[c] = conn[c]
            /\ Len(Errors(conn'[c].log)) = 1
            /\ conn'[c].readyState # OPEN
            /\ conn'[c].room = 0
            /\ conn'[c].relayed = <<>>
            /\ conn'[c].sent = {}
            /\ conn'[c].onMessage = "none"
            /\ \A r \in DOMAIN room' : c \notin room'[r].everAttached]_vars

C12_Witness ==
  \E c \in Conns :
    /\ conn[c].outcome = "authError"
    /\ conn[c].calls = <<[op |-> "terminate", code |-> 0]>>
    /\ conn[c].readyState = CLOSING
    /\ sentN = MaxFrames
    /\ \A d \in Conns \ {c} : conn[d].pc = "new"

\* C13: handleConnection on a closed server calls close(NORMAL) on the socket
\* and nothing else: no listener, no backlog, no continuation, no log, and the
\* Registry and the Rooms stay as they are; the connection is never attached
\* and the server does nothing more to it.
C13_AdmissionAfterClose ==
  [][\A c \in Conns :
       /\ (isClosed /\ conn[c].pc = "new" /\ conn'[c].pc # "new") =>
            /\ conn'[c].outcome = "serverClosed"
            /\ conn'[c].calls = <<[op |-> "close", code |-> NORMAL]>>
            /\ conn'[c].log = <<>>
            /\ mq' = mq
            /\ rooms' = rooms
            /\ room' = room
       /\ conn'[c].outcome = "serverClosed" =>
            /\ conn[c].outcome = "serverClosed" => conn'[c] = conn[c]
            /\ conn'[c].onMessage = "none"
            /\ conn'[c].onClose = {}
            /\ conn'[c].bufferedMessages = <<>>
            /\ conn'[c].relayed = <<>>
            /\ conn'[c].sent = {}
            /\ conn'[c].room = 0
            /\ conn'[c].readyState # OPEN
            /\ \A r \in DOMAIN room' : c \notin room'[r].everAttached]_vars

\* c1 was attached when close() was called; c2 is handed over afterwards
C13_Witness ==
  /\ isClosed
  /\ conn["c1"].pc = "attached"
  /\ conn["c2"].outcome = "serverClosed"
  /\ conn["c2"].readyState = CLOSING
  /\ sentN = MaxFrames

Attached == UNION {room[r].conns : r \in DOMAIN room}

\* C14: on a server that has been closed, a call of close() with any code and
\* any terminateTimeout leaves isClosed, every socket, the Registry and the
\* timer as they are: no close is sent, no termination is scheduled.
C14_CloseIdempotent ==
  isClosed =>
    \A code \in Codes, terminateTimeout \in BOOLEAN :
      closeCall(code, terminateTimeout) =
        [isClosed |-> TRUE, conn |-> conn, rooms |-> rooms, timer |-> timer]

\* a closed server on which a repeated close() would find something to do: a
\* Room registered, with an open connection attached
C14_Witness ==
  /\ isClosed
  /\ \E n \in Names :
       /\ rooms[n] # 0
       /\ \E c \in room[rooms[n]].conns : conn[c].readyState = OPEN

\* C15: a call of close(code) on a server that is not closed yet makes one
\* close(code) call on every connection attached to a Room, touches no other
\* connection, empties the Registry and marks the server closed; it does not
\* detach or destroy anything (the connections are still attached when it
\* returns).
C15_CloseClosesAttached ==
  ~isClosed =>
    \A code \in Codes, terminateTimeout \in BOOLEAN :
      LET after == closeCall(code, terminateTimeout)
      IN  /\ after.isClosed
          /\ after.rooms = [n \in Names |-> 0]
          /\ \A c \in Conns :
               IF c \in Attached
               THEN /\ after.conn[c].calls =
                         Append(conn[c].calls, [op |-> "close", code |-> code])
                    /\ after.conn[c].readyState # OPEN
                    /\ after.conn[c].pc = "attached"
               ELSE after.conn[c] = conn[c]

\* close(UNSUPPORTED) has returned: both connections were asked to close with
\* that code, are still attached, and the Registry is empty
C15_Witness ==
  /\ isClosed
  /\ Len(room) = 1
  /\ room[1].conns = Conns
  /\ room[1].destroyed = 0
  /\ rooms = [n \in Names |-> 0]
  /\ \A c \in Conns :
       /\ conn[c].readyState = CLOSING
       /\ conn[c].calls = <<[op |-> "close", code |-> UNSUPPORTED]>>

\* C16: the call of close() that shuts the server down leaves no connection
\* that handleConnection is admitting or has attached open, and on a closed
\* server no Room is made (so no load is started) and no connection is
\* attached to a Room.
C16_CloseClosesAllOpen ==
  [][/\ (~isClosed /\ isClosed') =>
          \A c \in Conns :
            conn[c].pc \in {"auth", "load", "attached"} => conn'[c].readyState # OPEN
     /\ isClosed =>
          /\ Len(room') = Len(room)
          /\ \A r \in DOMAIN room : room'[r].everAttached = room[r].everAttached]_vars

Terminations(c) == Len(SelectSeq(conn[c].calls, LAMBDA x : x.op = "terminate"))

\* C17: an attached connection is terminated only by the callback of the
\* timer that close() armed; close() arms it only when given a
\* terminateTimeout, and then for every Room that has a connection attached;
\* when the timer elapses, every connection still attached to one of those
\* Rooms is terminated.
C17_TerminateTimeout ==
  [][/\ ~isClosed =>
          /\ timer.state = "none"
          /\ \A code \in Codes : closeCall(code, FALSE).timer.state = "none"
          /\ \A code \in Codes :
               LET after == closeCall(code, TRUE)
               IN  /\ \A c \in Conns : after.conn[c].calls # conn[c].calls =>
                         after.conn[c].calls =
                           Append(conn[c].calls, [op |-> "close", code |-> code])
                   /\ \A r \in DOMAIN room :
                         room[r].conns # {} =>
                           after.timer.state = "armed" /\ r \in after.timer.rooms
     /\ \A c \in Conns :
          (conn[c].pc = "attached" /\ conn'[c].calls # conn[c].calls
             /\ conn'[c].calls[Len(conn'[c].calls)].op = "terminate") =>
            timer.state = "armed" /\ timer'.state = "none"
     /\ (timer.state = "armed" /\ timer'.state = "none") =>
          \A r \in timer.rooms : \A c \in room[r].conns :
            conn'[c].calls = Append(conn[c].calls, [op |-> "terminate", code |-> 0])]_vars

\* the timer has elapsed on two connections that had been asked to close and
\* had not closed
C17_Witness ==
  /\ isClosed
  /\ timer.state = "none"
  /\ \A c \in Conns :
       /\ conn[c].pc = "attached"
       /\ conn[c].readyState = CLOSING
       /\ Len(conn[c].calls) = 2
       /\ conn[c].calls[1].op = "close"
       /\ conn[c].calls[2].op = "terminate"

\* C18: the step in which handleConnection finds that docNameFromRequest gave
\* no name calls close(UNSUPPORTED) on the socket, logs one error and leaves
\* the Registry and the Rooms alone; the connection has no Room, is attached
\* nowhere, no other error is logged for it and the server does nothing more
\* to it.
C18_InvalidDocName ==
  [][\A c \in Conns :
       conn'[c].outcome = "invalidName" =>
         /\ conn[c].outcome # "invalidName" =>
              /\ conn'[c].calls = Append(conn[c].calls, [op |-> "close", code |-> UNSUPPORTED])
              /\ conn'[c].log = Append(conn[c].log,
                    [level |-> "error", msg |-> "invalid doc name", size |-> 0, maxSize |-> 0])
              /\ rooms' = rooms
              /\ room' = room
         /\ conn[c].outcome = "invalidName" => conn'[c] = conn[c]
         /\ Len(Errors(conn'[c].log)) = 1
         /\ conn'[c].readyState # OPEN
         /\ conn'[c].room = 0
         /\ conn'[c].relayed = <<>>
         /\ conn'[c].sent = {}
         /\ conn'[c].onMessage = "none"
         /\ conn'[c].onClose = {}
         /\ \A r \in DOMAIN room' : c \notin room'[r].everAttached]_vars

\* c2's request has no name while c1 is attached to the Room of d1
C18_Witness ==
  /\ conn["c2"].outcome = "invalidName"
  /\ conn["c2"].calls = <<[op |-> "close", code |-> UNSUPPORTED]>>
  /\ conn["c2"].readyState = CLOSING
  /\ conn["c1"].pc = "attached"
  /\ rooms["d1"] = conn["c1"].room

\* C19: on a server that has not been closed, handleConnection on a socket
\* that is closing or closed logs one warning and does nothing else: no
\* listener, no backlog, no continuation, no close() and no terminate(), and
\* the Registry, the Rooms and the other connections stay as they are; the
\* server does nothing more to it.
C19_ClosedSocketIgnored ==
  [][\A c \in Conns :
       /\ ( /\ ~isClosed
            /\ conn[c].pc = "new"
            /\ conn'[c].pc # "new"
            /\ conn'[c].readyState \in {CLOSING, CLOSED} ) =>
              /\ conn'[c].outcome = "ignored"
              /\ Len(conn'[c].log) = 1
              /\ conn'[c].log[1].level = "warn"
              /\ mq' = mq
              /\ rooms' = rooms
              /\ room' = room
              /\ \A d \in Conns \ {c} : conn'[d] = conn[d]
       /\ conn'[c].outcome = "ignored" =>
            /\ conn[c].outcome = "ignored" => conn'[c] = conn[c]
            /\ conn'[c].calls = <<>>
            /\ conn'[c].onMessage = "none"
            /\ conn'[c].onClose = {}
            /\ conn'[c].bufferedMessages = <<>>
            /\ conn'[c].relayed = <<>>
            /\ conn'[c].sent = {}
            /\ conn'[c].room = 0
            /\ \A r \in DOMAIN room' : c \notin room'[r].everAttached]_vars

\* c2 is handed over closing while c1 is attached, and has sent frames since
C19_Witness ==
  /\ ~isClosed
  /\ conn["c2"].outcome = "ignored"
  /\ conn["c2"].readyState = CLOSING
  /\ conn["c1"].pc = "attached"
  /\ conn["c1"].readyState = OPEN
  /\ rooms["d1"] = conn["c1"].room
  /\ room[conn["c1"].room].yDoc = {}
  /\ sentN = MaxFrames

\* C20: when docNameFromRequest or createDoc throws, or setupNewConnection
\* finds the socket not open, the step logs one error and calls
\* close(INTERNAL_ERROR) on the socket, and handleConnection is over: the
\* Registry and the Rooms are left alone, the connection is attached nowhere,
\* no other error is logged for it and the server does nothing more to it.
\* Every continuation of handleConnection ends attached, waiting for the load
\* or returned.
C20_SetupExceptionCaught ==
  [][\A c \in Conns :
       /\ (conn[c].pc \in {"auth", "load"} /\ conn'[c].pc # conn[c].pc) =>
            \/ conn'[c].pc = "load" /\ conn[c].pc = "auth"
            \/ conn'[c].pc = "attached" /\ conn[c].pc = "load"
            \/ conn'[c].pc = "done" /\ conn'[c].outcome # ""
       /\ conn'[c].outcome = "setupError" =>
            /\ conn[c].outcome # "setupError" =>
                 /\ conn'[c].calls =
                      Append(conn[c].calls, [op |-> "close", code |-> INTERNAL_ERROR])
                 /\ conn'[c].log = Append(conn[c].log,
                       [level |-> "error", msg |-> "error setting up new connection",
                        size |-> 0, maxSize |-> 0])
                 /\ rooms' = rooms
                 /\ room' = room
                 /\ \A d \in Conns \ {c} : conn'[d] = conn[d]
            /\ conn[c].outcome = "setupError" => conn'[c] = conn[c]
            /\ Len(Errors(conn'[c].log)) = 1
            /\ conn'[c].readyState # OPEN
            /\ conn'[c].relayed = <<>>
            /\ conn'[c].sent = {}
            /\ conn'[c].onMessage = "none"
            /\ conn'[c].onClose = {}
            /\ \A r \in DOMAIN room' : c \notin room'[r].everAttached]_vars

\* c1 never got a Room (the extractor or createDoc threw); c2 passed the load
\* with a socket that was no longer open
C20_Witness ==
  /\ conn["c1"].outcome = "setupError"
  /\ conn["c1"].room = 0
  /\ conn["c2"].outcome = "setupError"
  /\ conn["c2"].room # 0
  /\ room[conn["c2"].room].loadPromise = "true"

Warnings(log) == SelectSeq(log, LAMBDA e : e.level = "warn")

\* C21: a connection that sent a non-binary frame while bufferUntilReady was
\* listening has been terminated, exactly once (and once more if its
\* shouldConnect rejects afterwards), and is not open; one warning
\* and no other is logged for it; it is not attached and never was, and none
\* of the frames it sent is handed to handleMessage, whatever the gate it was
\* waiting for resolves to afterwards.
C21_NonBinaryWhileBuffering ==
  \A c \in Conns :
    (\E i \in 1..Len(conn[c].log) :
        conn[c].log[i] = [level |-> "warn", msg |-> "received a non-arraybuffer message",
                          size |-> 0, maxSize |-> 0]) =>
      /\ Len(Warnings(conn[c].log)) = 1
      /\ Terminations(c) = IF conn[c].outcome = "authError" THEN 2 ELSE 1
      /\ conn[c].readyState # OPEN
      /\ conn[c].pc # "attached"
      /\ conn[c].relayed = <<>>
      /\ conn[c].sent = {}
      /\ \A r \in DOMAIN room : c \notin room[r].everAttached

\* a binary frame, then a string frame, arrived while shouldConnect was
\* pending; shouldConnect resolved true and the Room's load is satisfied: the
\* continuation after the load is about to run on the terminated socket
C21_Witness ==
  \E c \in Conns :
    /\ docStorage = "none"
    /\ conn[c].pc = "load"
    /\ conn[c].shouldConnect = "true"
    /\ Len(conn[c].arrived) = 2
    /\ conn[c].arrived[1].bin
    /\ ~conn[c].arrived[2].bin
    /\ conn[c].bufferedMessages = <<conn[c].arrived[1]>>
    /\ conn[c].readyState = CLOSING
    /\ Len(Warnings(conn[c].log)) = 1

Supported(f) == f.bin /\ f.kind \in {Sync, Awareness}

\* C22: on an attached connection whose socket is open, a frame that is not
\* binary or whose kind is neither Sync nor Awareness makes handleMessage log
\* one error and call close(UNSUPPORTED), and changes no Room and no other
\* connection; on a socket that is closing or closed handleMessage does
\* nothing, whatever the frame.  The same holds in the replay: the frames after
\* an unsupported frame of the backlog are not applied.  An attached
\* connection has at most one error logged, and then it has been closed with
\* UNSUPPORTED.
C22_UnsupportedFrame ==
  \A c \in Conns :
    conn[c].pc = "attached" =>
      /\ \A f \in Frames :
           LET after == handleMessage(Cur, c, conn[c].room, f)
           IN  IF conn[c].readyState # OPEN
               THEN after = Cur
               ELSE ~Supported(f) =>
                      /\ after.conn[c].calls =
                           Append(conn[c].calls, [op |-> "close", code |-> UNSUPPORTED])
                      /\ Len(after.conn[c].log) = Len(conn[c].log) + 1
                      /\ Len(Errors(after.conn[c].log)) = 1
                      /\ after.conn[c].readyState # OPEN
                      /\ after.room = room
                      /\ after.rooms = rooms
                      /\ \A d \in Conns \ {c} : after.conn[d] = conn[d]
      /\ Len(Errors(conn[c].log)) <= 1
      /\ Errors(conn[c].log) # <<>> =>
           /\ Called(c, [op |-> "close", code |-> UNSUPPORTED])
           /\ conn[c].readyState # OPEN
      /\ \A i \in 1..Len(conn[c].relayed) :
           ~Supported(conn[c].relayed[i]) =>
             /\ Len(Errors(conn[c].log)) = 1
             /\ (\A j \in 1..(i - 1) : conn[c].relayed[j].kind # Sync) =>
                  c \notin room[conn[c].room].yDoc

\* c1's backlog held a frame of kind 2 and then a sync frame: the replay closed
\* c1 on the first and did not apply the second; c2 is attached and open
C22_Witness ==
  /\ conn["c1"].pc = "attached"
  /\ Len(conn["c1"].relayed) = 2
  /\ ~Supported(conn["c1"].relayed[1])
  /\ conn["c1"].relayed[2].kind = Sync
  /\ conn["c1"].readyState = CLOSING
  /\ conn["c1"].calls = <<[op |-> "close", code |-> UNSUPPORTED]>>
  /\ "c1" \notin room[conn["c1"].room].yDoc
  /\ conn["c2"].pc = "attached"
  /\ conn["c2"].readyState = OPEN

\* C23: in the step in which a connection detaches from a Room, every presence
\* id it controls loses its state in the Room's awareness, and the removal (one
\* awareness message giving null for those ids) is sent to every connection
\* that stays attached with an open socket; every presence id a Room holds is
\* controlled by a connection attached to it, so a Room without connections
\* holds none, and the Room that is destroyed because its last connection left
\* had them removed in that same step.
C23_PresenceRetracted ==
  [][\A r \in DOMAIN room :
       /\ \A c \in room[r].conns \ room'[r].conns :
            LET ids == room[r].controlled[c]
            IN  /\ room'[r].awareness = room[r].awareness \ ids
                /\ ids \cap room[r].awareness # {} =>
                     \A d \in room'[r].conns :
                       conn[d].readyState = OPEN =>
                         encodeAwarenessUpdate({}, ids \cap room[r].awareness)
                           \in conn'[d].sent \ conn[d].sent
       /\ room'[r].awareness = UNION {room'[r].controlled[c] : c \in room'[r].conns}
       /\ room'[r].conns = {} => room'[r].awareness = {}
       /\ room'[r].destroyed > room[r].destroyed => room'[r].awareness = {}]_vars

\* both connections had set their two presence ids; c1 has detached: its ids
\* are gone, c2's are held, and c2 was sent the removal
C23_Witness ==
  /\ Len(room) = 1
  /\ room[1].conns = {"c2"}
  /\ room[1].everAttached = Conns
  /\ room[1].awareness = clientIds("c2")
  /\ conn["c2"].readyState = OPEN
  /\ encodeAwarenessUpdate({}, clientIds("c1")) \in conn["c2"].sent
  /\ encodeAwarenessUpdate(clientIds("c1"), clientIds("c1")) \in conn["c2"].sent

C25_Defaults ==
  LET options == CreateYjsServerOptions([k \in {} |-> 0])
  IN  \A c \in Conns :
        /\ conn[c].pc = "auth" => options.maxBufferedBytesBeforeConnect = 5 * 1024 * 1024
        /\ conn[c].pc = "load" => options.maxBufferedBytes = 100 * 1024 * 1024
        /\ conn[c].pingInterval = "set" => options.pingTimeoutMs = 30000

\* C26: once a connection's socket has emitted 'close', its watchdog's
\* interval is not running: no tick of the watchdog happens any more, and the
\* server calls neither ping() nor terminate() on the socket again.  A
\* watchdog that terminated its connection, at a tick without a pong or
\* because ping() threw, has cleared its interval itself.
C26_WatchdogTornDown ==
  [][\A c \in Conns :
       /\ conn'[c].readyState = CLOSED => conn'[c].pingInterval # "set"
       /\ conn[c].readyState = CLOSED =>
            /\ conn'[c].wd = conn[c].wd
            /\ \A i \in (Len(conn[c].calls) + 1)..Len(conn'[c].calls) :
                 conn'[c].calls[i].op = "close"
       /\ conn[c].pingInterval # "set" => conn'[c].wd = conn[c].wd
       /\ (conn'[c].wd # conn[c].wd /\ conn'[c].calls # conn[c].calls
             /\ conn'[c].calls[Len(conn'[c].calls)].op = "terminate") =>
            conn'[c].pingInterval = "cleared"]_vars

\* c1 was pinged once and then closed, with ticks to spare; c2's ping threw
C26_Witness ==
  /\ conn["c1"].wd = <<"tick">>
  /\ conn["c1"].readyState = CLOSED
  /\ conn["c1"].pingInterval = "cleared"
  /\ conn["c1"].calls = <<[op |-> "ping", code |-> 0]>>
  /\ conn["c2"].wd = <<"throw">>
  /\ conn["c2"].readyState = CLOSING
  /\ conn["c2"].pingInterval = "cleared"

\* C27: in the step in which an update is merged into a Room's document, the
\* Room is marked dirty; every connection attached to the Room at that moment
\* whose socket is open, the sender included, is sent the update, in one
\* frame; no other connection is sent it; and with a docStorage the update is
\* given to onUpdate, once.  No frame is sent twice to a connection, and
\* onUpdate has been called once for each update in the document.
C27_MutationBroadcast ==
  [][/\ \A r \in DOMAIN room :
          \A u \in room'[r].yDoc \ room[r].yDoc :
            /\ room'[r].isDirty
            /\ \A d \in Conns :
                 IF d \in room'[r].conns
                 THEN conn[d].readyState = OPEN => u \in conn'[d].sent \ conn[d].sent
                 ELSE u \notin conn'[d].sent
            /\ room'[r].onUpdateCalls =
                 IF docStorage = "store" THEN Append(room[r].onUpdateCalls, u)
                 ELSE <<>>
     /\ \A d \in Conns : conn'[d].sends = Cardinality(conn'[d].sent)
     /\ \A r \in DOMAIN room' :
          Len(room'[r].onUpdateCalls) =
            IF docStorage = "store" THEN Cardinality(room'[r].yDoc) ELSE 0]_vars

\* the updates of both connections were merged while both were attached and
\* open: each was sent both, and onUpdate got the persisted state and both updates
C27_Witness ==
  /\ docStorage = "store"
  /\ Len(room) = 1
  /\ room[1].conns = Conns
  /\ room[1].yDoc = Conns \cup {"stored"}
  /\ Len(room[1].onUpdateCalls) = 3
  /\ room[1].isDirty
  /\ \A c \in Conns : Conns \subseteq conn[c].sent /\ conn[c].readyState = OPEN

HookWarnings(r) ==
  SelectSeq(room[r].log, LAMBDA e : e.msg \in {"error calling onUpdate", "error calling storeDoc"})

Abandoned(r) ==
  docStorage = "store" /\ room[r].loadPromise = "true" /\ room[r].waitedOut = {}

C30_NothingBeforeLoad ==
  [][/\ \A r \in DOMAIN room' :
          room'[r].loadPromise # "true" =>
            /\ room'[r].everAttached = {}
            /\ room'[r].conns = {}
            /\ room'[r].yDoc \subseteq {"stored"}
            /\ room'[r].awareness = {}
            /\ \A c \in Conns :
                 conn'[c].room = r =>
                   /\ conn'[c].sent = {}
                   /\ conn'[c].relayed = <<>>
                   /\ conn'[c].pc # "attached"
     /\ \A r \in DOMAIN room :
          \A c \in room'[r].everAttached \ room[r].everAttached :
            /\ room[r].loadPromise = "true"
            /\ conn[c].sent = {}
            /\ writeSyncStep1(room[r].yDoc) \in conn'[c].sent
            /\ room[r].yDoc \subseteq room'[r].yDoc]_vars

\* loadDoc merged the persisted state; c1, whose sync frame arrived while the
\* load was pending, was then attached, sent the first sync step of the loaded
\* document, and had its frame applied
C30_Witness ==
  /\ docStorage = "store"
  /\ conn["c1"].pc = "attached"
  /\ conn["c1"].relayed # <<>>
  /\ room[conn["c1"].room].yDoc = {"stored", "c1"}
  /\ writeSyncStep1({"stored"}) \in conn["c1"].sent
  /\ "c1" \in conn["c1"].sent

\* C31: the step that attaches a connection finds it sent nothing yet; after
\* it the connection is in the Room's map, the relay handler, the Room's
\* 'close' listener and the watchdog are installed, the first frame on the
\* socket is the first sync step of the document as it was before the replay,
\* the presence snapshot (if any state existed) is the one from before the
\* replay, every frame of the backlog has been handed to handleMessage in the
\* order of arrival, and the update of a replayed sync frame has come back to
\* the connection in the broadcast.  The first frame sent never changes
\* afterwards.  A frame that arrives before the attach is not processed (it
\* changes no Room and is handed to no handler), and a frame that arrives on an
\* attached connection finds the backlog empty and replayed.
C31_AdmissionOrder ==
  [][/\ \A r \in DOMAIN room :
          \A c \in room'[r].everAttached \ room[r].everAttached :
            /\ c \in room'[r].conns
            /\ conn'[c].onMessage = "relay"
            /\ {"room", "keepAlive"} \subseteq conn'[c].onClose
            /\ conn'[c].pingInterval = "set"
            /\ conn[c].sent = {}
            /\ conn'[c].first = writeSyncStep1(room[r].yDoc)
            /\ room[r].awareness # {} =>
                 encodeAwarenessUpdate(room[r].awareness, room[r].awareness) \in conn'[c].sent
            /\ conn'[c].relayed = conn[c].bufferedMessages
            /\ conn'[c].relayed = conn[c].arrived
            /\ conn'[c].bufferedMessages = <<>>
            /\ (conn[c].arrived # <<>> /\ conn[c].arrived[1].kind = Sync) =>
                 c \in room'[r].yDoc /\ c \in conn'[c].sent
     /\ \A c \in Conns :
          /\ conn[c].first # "" => conn'[c].first = conn[c].first
          /\ conn'[c].arrived # conn[c].arrived /\ sentN' # sentN =>
               /\ room' = room
               /\ conn'[c].relayed = <<>>
               /\ conn'[c].sent = {}
          /\ (conn[c].pc = "attached" /\ sentN' # sentN) =>
               /\ conn[c].bufferedMessages = <<>>
               /\ conn[c].relayed = conn[c].arrived]_vars

\* c2 was attached after c1, with an awareness frame and then a sync frame in
\* its backlog, to a Room whose document held the persisted state: its first
\* frame is the sync step of the document without its own update, and the
\* broadcasts of the replay followed, to c1 as well
C31_Witness ==
  /\ conn["c1"].pc = "attached"
  /\ conn["c2"].pc = "attached"
  /\ Len(conn["c2"].relayed) = 2
  /\ conn["c2"].relayed[1].kind = Awareness
  /\ conn["c2"].relayed[2].kind = Sync
  /\ conn["c2"].first = writeSyncStep1({"stored"})
  /\ "c2" \in conn["c2"].sent
  /\ "c2" \in conn["c1"].sent
  /\ encodeAwarenessUpdate(clientIds("c2"), clientIds("c2")) \in conn["c2"].sent

\* C32: the step in which a buffering phase finishes (its race is settled by
\* the gate, true, false or rejected, or by the 'close' of the socket) removes
\* the phase's 'message' and 'close' listeners; the two are installed and
\* removed together, and neither is on a connection whose handleConnection has
\* returned or attached it.  A frame is appended to the backlog only by a step
\* in which that frame arrives while the buffering listener is installed;
\* a connection that is attached or done has no backlog, so a frame that
\* arrives on an attached connection is handed to handleMessage only.
C32_ListenersRemoved ==
  [][/\ (mq # <<>> /\ Head(mq).k = "race") =>
          LET c == Head(mq).c
          IN  /\ conn[c].onMessage = "buffer" /\ "buffer" \in conn[c].onClose
              /\ conn'[c].onMessage = "none" /\ "buffer" \notin conn'[c].onClose
              /\ mq'[Len(mq')] = [k |-> "resume", c |-> c, v |-> Head(mq).v, by |-> Head(mq).by]
     /\ \A c \in Conns :
          /\ conn'[c].onMessage = "buffer" <=> "buffer" \in conn'[c].onClose
          /\ conn'[c].onMessage = "buffer" => conn'[c].pc \in {"auth", "load"}
          /\ conn'[c].pc \in {"attached", "done"} => conn'[c].bufferedMessages = <<>>
          /\ Len(conn'[c].bufferedMessages) > Len(conn[c].bufferedMessages) =>
               /\ conn[c].onMessage = "buffer"
               /\ sentN' = sentN + 1
               /\ conn'[c].bufferedMessages =
                    Append(conn[c].bufferedMessages, conn'[c].arrived[Len(conn'[c].arrived)])
          /\ (conn[c].pc = "attached" /\ sentN' = sentN + 1) =>
               conn'[c].bufferedMessages = <<>> /\ conn'[c].relayed = conn[c].relayed]_vars

\* c1's first phase finished with false and its socket, left open, has
\* received a frame since; c2's second phase finished because c2 closed
C32_Witness ==
  /\ Idle
  /\ conn["c1"].outcome = "unauthorized"
  /\ conn["c1"].readyState = OPEN
  /\ conn["c1"].onMessage = "none"
  /\ conn["c1"].onClose = {}
  /\ conn["c2"].outcome = "abandoned"
  /\ conn["c2"].room # 0
  /\ conn["c2"].onMessage = "none"
  /\ conn["c2"].onClose = {}
  /\ sentN = MaxFrames

\* C33: the second phase goes on with the backlog of the first, and its
\* running size starts at the bytes of that backlog.  A binary frame that
\* arrives in the load phase on a socket that is open is appended to the
\* backlog if the bytes of the backlog with it are at most maxBufferedBytes;
\* if not, the backlog stays as it is, the overflow is logged with that total
\* and the ceiling, and the socket is terminated.  While the socket of a
\* connection in a buffering phase is open, the running size is the bytes of
\* its backlog.
C33_SharedBacklog ==
  [][\A c \in Conns :
       /\ (conn[c].pc = "auth" /\ conn'[c].pc = "load") =>
            /\ conn'[c].bufferedMessages = conn[c].bufferedMessages
            /\ conn'[c].size = byteLength(conn[c].bufferedMessages)
       /\ (conn'[c].pc \in {"auth", "load"} /\ conn'[c].readyState = OPEN) =>
            conn'[c].size = byteLength(conn'[c].bufferedMessages)
       /\ ( /\ conn[c].pc = "load"
            /\ conn[c].readyState = OPEN
            /\ Len(conn'[c].arrived) = Len(conn[c].arrived) + 1
            /\ conn'[c].arrived[Len(conn'[c].arrived)].bin ) =>
              LET f == conn'[c].arrived[Len(conn'[c].arrived)]
                  total == byteLength(conn[c].bufferedMessages) + f.len
              IN  IF total <= maxBufferedBytes
                  THEN /\ conn'[c].bufferedMessages = Append(conn[c].bufferedMessages, f)
                       /\ conn'[c].calls = conn[c].calls
                       /\ conn'[c].log = conn[c].log
                       /\ conn'[c].readyState = OPEN
                  ELSE /\ conn'[c].bufferedMessages = conn[c].bufferedMessages
                       /\ conn'[c].calls = Append(conn[c].calls, [op |-> "terminate", code |-> 0])
                       /\ conn'[c].log = Append(conn[c].log,
                             [level |-> "warn", msg |-> "message buffer exceeded maxSize",
                              size |-> total, maxSize |-> maxBufferedBytes])
                       /\ conn'[c].readyState # OPEN]_vars

\* a frame of 2 bytes is in the backlog and a second frame of 2 bytes, which
\* alone is within maxBufferedBytes, was refused in the load phase
C33_Witness ==
  \E c \in Conns :
    /\ conn[c].pc = "load"
    /\ Len(conn[c].arrived) = 2
    /\ conn[c].arrived[2].len <= maxBufferedBytes
    /\ conn[c].bufferedMessages = <<conn[c].arrived[1]>>
    /\ \E i \in 1..Len(conn[c].log) :
         conn[c].log[i] = [level |-> "warn", msg |-> "message buffer exceeded maxSize",
                           size |-> byteLength(conn[c].arrived),
                           maxSize |-> maxBufferedBytes]

\* C34: the step in which the socket of a connection waiting at the
\* authorization gate or at the load gate emits 'close' empties its backlog
\* and changes nothing else but the connection: not its shouldConnect promise,
\* no Room (the load and the connections waiting for it stay as they are),
\* not the Registry, no other connection.  The connection then only returns,
\* abandoned: it is attached to no Room and never was, none of its frames was
\* handed to handleMessage and nothing was sent to it.  When a load succeeds,
\* every connection then waiting for it gets the result, and a connection
\* that leaves the load gate with its socket open and the load satisfied is
\* attached.
C34_CloseWhileWaiting ==
  [][/\ \A c \in Conns :
          /\ ( /\ conn[c].pc \in {"auth", "load"}
               /\ conn[c].readyState # CLOSED
               /\ conn'[c].readyState = CLOSED ) =>
                 /\ conn'[c].bufferedMessages = <<>>
                 /\ conn'[c].shouldConnect = conn[c].shouldConnect
                 /\ conn'[c].pc = conn[c].pc
                 /\ conn'[c].calls = conn[c].calls
                 /\ room' = room
                 /\ rooms' = rooms
                 /\ \A d \in Conns \ {c} : conn'[d] = conn[d]
          /\ ( /\ conn[c].pc \in {"auth", "load"}
               /\ conn[c].readyState = CLOSED
               /\ conn'[c].pc # conn[c].pc ) =>
                 /\ conn'[c].outcome = "abandoned"
                 /\ rooms' = rooms
                 /\ \A d \in Conns \ {c} : conn'[d] = conn[d]
          /\ conn'[c].outcome = "abandoned" =>
               /\ conn'[c].pc = "done"
               /\ conn'[c].bufferedMessages = <<>>
               /\ conn'[c].relayed = <<>>
               /\ conn'[c].sent = {}
               /\ conn'[c].onMessage = "none"
               /\ \A r \in DOMAIN room' :
                    c \notin room'[r].everAttached /\ c \notin room'[r].yDoc
          /\ ( /\ conn[c].pc = "load"
               /\ conn'[c].pc # "load"
               /\ conn[c].readyState = OPEN
               /\ room[conn[c].room].loadPromise = "true" ) =>
                 /\ conn'[c].pc = "attached"
                 /\ c \in room'[conn[c].room].conns
     /\ \A r \in DOMAIN room :
          (room[r].loadPromise = "pending" /\ room'[r].loadPromise = "true") =>
            \A i \in 1..Len(room[r].waiting) :
              \E j \in 1..Len(mq') :
                mq'[j] = [k |-> "race", c |-> room[r].waiting[i], v |-> "true", by |-> "gate"]]_vars

\* c1 and c2 waited for the same load; c1 closed before it settled and was
\* abandoned; the load succeeded and c2, with a frame in its backlog, was
\* attached and had it replayed
C34_Witness ==
  /\ docStorage = "store"
  /\ Len(room) = 1
  /\ conn["c1"].outcome = "abandoned"
  /\ conn["c1"].room = 1
  /\ conn["c1"].readyState = CLOSED
  /\ room[1].loadPromise = "true"
  /\ room[1].waitedOut = {"c2"}
  /\ conn["c2"].pc = "attached"
  /\ conn["c2"].relayed # <<>>
  /\ room[1].conns = {"c2"}

\* C35: a failed load reaches only the connections that were waiting for the
\* Room when it failed: a connection that waits for a Room whose load has
\* failed, or that was closed because the load of its Room failed, was
\* waiting for that Room at the time of the failure (a connection admitted
\* afterwards for the same name is given another Room, with a load of its own).
C35_LoadFailureIsolated ==
  \A c \in Conns :
    ( /\ conn[c].room # 0
      /\ room[conn[c].room].loadPromise = "false"
      /\ conn[c].pc = "load" \/ conn[c].outcome = "loadFailed" ) =>
        c \in room[conn[c].room].waitedOut

\* C36: at any time, before and after close(), the Rooms of one name that
\* have a connection attached are one Room; and the step in which a Room
\* loses its last connection (handleClose destroys it) leaves the Registry's
\* entry of every name alone unless that entry is the Room itself.
C36_SameRoomPerName ==
  [][/\ \A r1, r2 \in DOMAIN room' :
          ( /\ room'[r1].conns # {}
            /\ room'[r2].conns # {}
            /\ room'[r1].name = room'[r2].name ) => r1 = r2
     /\ \A r \in DOMAIN room :
          room'[r].destroyed > room[r].destroyed =>
            \A n \in Names : rooms[n] # r => rooms'[n] = rooms[n]]_vars

\* C37: whatever the two ceilings the server was made with, the bytes of the
\* frames in the backlog of a connection that awaits its authorization are at
\* most maxBufferedBytesBeforeConnect, and those of a connection that awaits
\* the load are at most maxBufferedBytes.
C37_BacklogWithinCeiling ==
  \A c \in Conns :
    /\ conn[c].pc = "auth" =>
         byteLength(conn[c].bufferedMessages) <= config.maxBufferedBytesBeforeConnect
    /\ conn[c].pc = "load" =>
         byteLength(conn[c].bufferedMessages) <= config.maxBufferedBytes

\* C38: the step in which a connection detaches from a Room leaves in the
\* Room's presence state every id whose current state was set by a connection
\* that stays attached; and every id that has a state in a Room is controlled
\* by a connection attached to it.
C38_OwnPresenceOnly ==
  [][\A r \in DOMAIN room :
       /\ room'[r].conns # room[r].conns /\ room'[r].conns \subseteq room[r].conns =>
            \A id \in room[r].awareness :
              room[r].setBy[id] \in room'[r].conns => id \in room'[r].awareness
       /\ \A id \in room'[r].awareness :
            \E d \in room'[r].conns : id \in room'[r].controlled[d]]_vars

\* C39: in every step, an attached connection that is closed with
\* INTERNAL_ERROR (1011) was not open or its send failed, it gets that one
\* call and nothing is delivered to it; every other attached connection that
\* is open and whose send works receives a frame in the step and gets no
\* call; the closed connection stays attached, the presence ids it controls
\* keep their state, no presence state goes but that of a connection detached
\* in the step, and nothing leaves the document.
Deliverable(c) == conn[c].readyState = OPEN /\ ~conn[c].sendFails

ClosedBySend(r, c) ==
  /\ c \in room[r].conns \cap room'[r].conns
  /\ conn'[c].calls # conn[c].calls
  /\ conn'[c].calls[Len(conn'[c].calls)] = [op |-> "close", code |-> INTERNAL_ERROR]

C39_SendFailureIsolated ==
  [][\A r \in DOMAIN room : \A c \in Conns :
       ClosedBySend(r, c) =>
         /\ ~Deliverable(c)
         /\ Len(conn'[c].calls) <= Len(conn[c].calls) + MaxFrames
         /\ \A k \in Len(conn[c].calls) + 1 .. Len(conn'[c].calls) :
              conn'[c].calls[k] = [op |-> "close", code |-> INTERNAL_ERROR]
         /\ conn'[c].sent = conn[c].sent
         /\ \A d \in (room[r].conns \cap room'[r].conns) \ {c} :
              Deliverable(d) =>
                /\ conn'[d].sends > conn[d].sends
                /\ conn'[d].calls = conn[d].calls
                /\ conn'[d].readyState = OPEN
         /\ room[r].controlled[c] \subseteq room'[r].controlled[c]
         /\ room'[r].controlled[c] \subseteq room'[r].awareness
         /\ \A id \in room[r].awareness \ room'[r].awareness :
              \E x \in room[r].conns \ room'[r].conns : id \in room[r].controlled[x]
         /\ room[r].yDoc \subseteq room'[r].yDoc
         /\ ~room'[r].yDocDestroyed]_vars

\* c1's send fails while both connections are attached; c2's update reached
\* c2 and not c1, c1 was closed with 1011, and is still attached with the
\* presence it had published.
C39_Witness ==
  /\ Len(room) = 1
  /\ room[1].conns = Conns
  /\ conn["c1"].sendFails
  /\ conn["c1"].calls = <<[op |-> "close", code |-> INTERNAL_ERROR]>>
  /\ room[1].controlled["c1"] = clientIds("c1")
  /\ clientIds("c1") \subseteq room[1].awareness
  /\ "c2" \in room[1].yDoc
  /\ "c2" \in conn["c2"].sent \ conn["c1"].sent
  /\ conn["c2"].readyState = OPEN
====
